---- MODULE Spec2Model ----
(***************************************************************************)
(* EPUB package assembly of epub-converter: the archive Builder of         *)
(* package epub, its package, navigation and content document generators,  *)
(* the document model of package model and the table-of-contents builder   *)
(* BuildFromHeadings; the metadata operations Merge, EnsureDefaults and    *)
(* MergeMetadata; and the convert command of package cli with              *)
(* Converter.Convert, from the command line to the exit code.              *)
(*                                                                         *)
(* Text values (titles, identifiers, language tags) are sequences of       *)
(* tokens: a token is either one of the five characters html.EscapeString  *)
(* rewrites, or a run of other characters.  The empty sequence is "".      *)
(* An archive entry name is a pair <<prefix, rest>> standing for the       *)
(* concatenation prefix + rest, as in "OEBPS/" + chapter.FileName.         *)
(***************************************************************************)
EXTENDS Integers, Sequences, FiniteSets, TLC

VARIABLES
    doc,        \* the model.Document the caller owns and hands to Build
    input,      \* the Document as it was when the running Build was entered
    bdoc,       \* Builder.doc: "nil", or "doc" once Build stored its argument
    pc,         \* position of the Build call
    zw,         \* the zip.Writer over Build's local bytes.Buffer
    ci,         \* loop index of writeContentDocuments
    ri,         \* loop index of writeResources
    ret,        \* what Build returned: [bytes, err]
    builds,     \* number of Build calls made on the Document so far
    headings,   \* BuildFromHeadings: the input slice
    hi,         \* BuildFromHeadings: loop index i (1-based), 0 before the call
    heap,       \* BuildFromHeadings: the backing arrays allocated by append
    tocEntries, \* BuildFromHeadings: the slice header toc.Entries
    stack,      \* BuildFromHeadings: the stack of *TOCEntry
    meta,       \* Metadata calls: the receiver *Metadata, or the value returned
    metaPrev,   \* Metadata calls: the receiver before the last call
    metaOverride, \* Metadata calls: the override argument of the last Merge
    metaLog,    \* Metadata calls: the calls made so far, oldest first
    nav,        \* generateNavDocument called on doc: what it returned
    args,       \* toepub convert: the <input> arguments
    flags,      \* toepub convert: the values of the command's flags
    cpc,        \* toepub convert: position in runConvert and Converter.Convert
    cliMeta,    \* toepub convert: what buildCLIMetadata returned
    outputPath, \* toepub convert: opts.OutputPath, then Convert's outputPath
    files,      \* Converter.Convert: the slice expandInputs returned
    fi,         \* Converter.Convert: index of the file the parse loop is at
    cdoc,       \* Converter.Convert: the Document being assembled
    convResult, \* toepub convert: the error, exit code and JSON error code
    disk,         \* writeOutput: what the output path and "<path>.tmp" hold
    synchronized, \* two Build calls: whether the callers run them one by one
    builderDoc, \* two Build calls: the field doc of each Builder
    calls       \* two Build calls: each call's Builder, Document and progress

buildVars == <<doc, input, bdoc, pc, zw, ci, ri, ret, builds>>
tocVars == <<headings, hi, heap, tocEntries, stack>>
metaVars == <<meta, metaPrev, metaOverride, metaLog>>
convVars == <<args, flags, cpc, cliMeta, outputPath, files, fi, cdoc, convResult>>
shVars == <<synchronized, builderDoc, calls>>
vars == <<doc, input, bdoc, pc, zw, ci, ri, ret, builds,
          headings, hi, heap, tocEntries, stack,
          meta, metaPrev, metaOverride, metaLog, nav,
          args, flags, cpc, cliMeta, outputPath, files, fi, cdoc, convResult,
          disk, synchronized, builderDoc, calls>>

----------------------------------------------------------------------------
(* Bounds of the model *)

MaxChapters == 2
MaxResources == 1
MaxBuilds == 2
MaxHeadings == 4
MaxLevel == 3

----------------------------------------------------------------------------
(* Values of the variables of a part that is not running *)

\* generateNavDocument has not been called
NoNav == [generated |-> FALSE]

\* toepub convert has not been started
ConvIdle ==
    /\ args = <<>>
    /\ flags = [none |-> TRUE]
    /\ cpc = "idle"
    /\ cliMeta = [nil |-> TRUE]
    /\ outputPath = [none |-> TRUE]
    /\ files = <<>>
    /\ fi = 0
    /\ cdoc = [none |-> TRUE]
    /\ convResult = [none |-> TRUE]

\* No output file has been written: neither path exists.  A path holds
\* nothing ("absent"), the file that was there before the run ("old"), a
\* prefix of the EPUB bytes ("partial") or the complete EPUB bytes ("epub")
FsIdle == disk = [target |-> "absent", tmp |-> "absent", before |-> "absent"]

\* No pair of Build calls has been started
SharedIdle ==
    /\ synchronized = TRUE
    /\ builderDoc = <<>>
    /\ calls = <<>>

----------------------------------------------------------------------------
(* Text helpers *)

RECURSIVE Concat(_)
Concat(ss) == IF ss = <<>> THEN <<>> ELSE Head(ss) \o Concat(Tail(ss))

\* EscapeToken applied twice to the five characters
EscapeTokenTwice(c) ==
    CASE c = "&"  -> <<"&", "amp;", "amp;">>
      [] c = "'"  -> <<"&", "amp;", "#39;">>
      [] c = "<"  -> <<"&", "amp;", "lt;">>
      [] c = ">"  -> <<"&", "amp;", "gt;">>
      [] c = "\"" -> <<"&", "amp;", "#34;">>
      [] OTHER    -> <<c>>

\* html.EscapeString on one token
EscapeToken(c) ==
    CASE c = "&"  -> <<"&", "amp;">>
      [] c = "'"  -> <<"&", "#39;">>
      [] c = "<"  -> <<"&", "lt;">>
      [] c = ">"  -> <<"&", "gt;">>
      [] c = "\"" -> <<"&", "#34;">>
      [] OTHER    -> <<c>>

EscapeString(s) == Concat([i \in 1..Len(s) |-> EscapeToken(s[i])])

\* All sequences over S of length 0..n
SeqUpTo(S, n) == UNION {[1..k -> S] : k \in 0..n}

----------------------------------------------------------------------------
(* model.Document and its parts *)

Chapter(id, title, level, content, fileName, order) ==
    [id |-> id, title |-> title, level |-> level, content |-> content,
     fileName |-> fileName, order |-> order]

ChapterPool ==
    { Chapter("ch1", <<"Chapter 1">>, 1, "<p>hi</p>", "content/chapter-001.xhtml", 0),
      Chapter("ch2", <<>>, 2, "<p>two</p>", "content/chapter-002.xhtml", 1),
      Chapter("ch3", <<"Q", "&", "A">>, 1, "<p>three</p>", "content/chapter-003.xhtml", 5) }

Resource(id, fileName, mediaType, data, isCover) ==
    [id |-> id, fileName |-> fileName, mediaType |-> mediaType, data |-> data,
     isCover |-> isCover]

ResourcePool ==
    { Resource("cover-image", "images/cover.jpg", "image/jpeg", "jpeg-bytes", TRUE),
      Resource("img1", "images/a.png", "image/png", "png-bytes", FALSE) }

Titles == { <<>>, <<"T">>, <<"A", "&", "<", "B">> }
Languages == { <<>>, <<"fr">> }
Identifiers == { <<>>, <<"urn:isbn:1">> }
Dates == { 0, 1 }            \* 0 is the zero time.Time
UUIDs == { <<"urn:uuid:", "u1">>, <<"urn:uuid:", "u2">> }
Now == 2                     \* the reading of time.Now()

\* model.Metadata: the fields the four sets above do not cover, either all
\* unset or all set to values that need escaping
MetaExtras ==
    { [authors |-> <<>>, description |-> <<>>, publisher |-> <<>>,
       rights |-> <<>>, coverImage |-> <<>>],
      [authors |-> << <<"A", "&", "B">>, <<"C">> >>, description |-> <<"<", "d", ">">>,
       publisher |-> <<"P", "\"">>, rights |-> <<"&", "amp;">>,
       coverImage |-> <<"cover.jpg">>] }

\* model.Metadata
Metadatas ==
    { core @@ extra :
        core \in [title : Titles, language : Languages,
                  identifier : Identifiers, date : Dates],
        extra \in MetaExtras }

\* model.TOCEntry as a value: its children are the entries themselves
TOCEntry(title, href, level, children) ==
    [title |-> title, href |-> href, level |-> level, children |-> children]

\* Document.TOC.Entries as a parser leaves it
DocumentTOCs ==
    { << TOCEntry("Intro", "content/chapter-001.xhtml#intro", 1,
                  << TOCEntry("Part", "content/chapter-001.xhtml#part", 2, <<>>) >>) >> }

Documents ==
    [ meta : Metadatas,
      chapters : SeqUpTo(ChapterPool, MaxChapters),
      resources : SeqUpTo(ResourcePool, MaxResources),
      toc : DocumentTOCs ]

\* Valid with the chapter test forgotten
ValidTitleOnly(d) == d.meta.title # <<>>

\* Document.Valid
Valid(d) == d.meta.title # <<>> /\ Len(d.chapters) > 0

\* Document.AddChapter
AddChapter(d, chapter) == [d EXCEPT !.chapters = Append(@, chapter)]

\* EnsureDefaults that leaves the language alone
EnsureDefaultsNoLanguage(m, uuid) ==
    [m EXCEPT !.identifier = IF @ = <<>> THEN uuid ELSE @,
              !.date = IF @ = 0 THEN Now ELSE @]

\* Metadata.EnsureDefaults, with the generated UUID as input
EnsureDefaults(m, uuid) ==
    [m EXCEPT !.language = IF @ = <<>> THEN <<"en">> ELSE @,
              !.identifier = IF @ = <<>> THEN uuid ELSE @,
              !.date = IF @ = 0 THEN Now ELSE @]

\* The zero model.Metadata
ZeroMetadata ==
    [title |-> <<>>, authors |-> <<>>, language |-> <<>>, identifier |-> <<>>,
     description |-> <<>>, publisher |-> <<>>, date |-> 0, rights |-> <<>>,
     coverImage |-> <<>>]

\* NewMetadata
NewMetadata == [ZeroMetadata EXCEPT !.language = <<"en">>]

\* Merge that lets an empty override title erase the receiver's
MergeTitleAlways(m, override) ==
    [m EXCEPT !.title = override.title,
              !.authors = IF Len(override.authors) > 0 THEN override.authors ELSE @,
              !.language = IF override.language # <<>> THEN override.language ELSE @,
              !.identifier = IF override.identifier # <<>> THEN override.identifier ELSE @,
              !.description = IF override.description # <<>> THEN override.description ELSE @,
              !.publisher = IF override.publisher # <<>> THEN override.publisher ELSE @,
              !.date = IF override.date # 0 THEN override.date ELSE @,
              !.rights = IF override.rights # <<>> THEN override.rights ELSE @,
              !.coverImage = IF override.coverImage # <<>> THEN override.coverImage ELSE @]

\* Metadata.Merge: the receiver after m.Merge(override)
Merge(m, override) ==
    [m EXCEPT !.title = IF override.title # <<>> THEN override.title ELSE @,
              !.authors = IF Len(override.authors) > 0 THEN override.authors ELSE @,
              !.language = IF override.language # <<>> THEN override.language ELSE @,
              !.identifier = IF override.identifier # <<>> THEN override.identifier ELSE @,
              !.description = IF override.description # <<>> THEN override.description ELSE @,
              !.publisher = IF override.publisher # <<>> THEN override.publisher ELSE @,
              !.date = IF override.date # 0 THEN override.date ELSE @,
              !.rights = IF override.rights # <<>> THEN override.rights ELSE @,
              !.coverImage = IF override.coverImage # <<>> THEN override.coverImage ELSE @]

\* The nil *model.Metadata
NilMetadata == [nil |-> TRUE]

\* epub.MergeMetadata(source, cli), with the generated UUID as input
MergeMetadata(source, cli, uuid) ==
    LET result == IF source # NilMetadata
                    THEN [NewMetadata EXCEPT
                            !.title = source.title,
                            !.authors = @ \o source.authors,
                            !.language = source.language,
                            !.identifier = source.identifier,
                            !.description = source.description,
                            !.publisher = source.publisher,
                            !.date = source.date,
                            !.rights = source.rights,
                            !.coverImage = source.coverImage]
                    ELSE NewMetadata
        merged == IF cli # NilMetadata THEN Merge(result, cli) ELSE result
    IN EnsureDefaults(merged, uuid)

----------------------------------------------------------------------------
(* Errors.  An error is the chain of messages fmt.Errorf("...: %w", err)   *)
(* builds, outermost first; <<>> is nil.  errors.Is finds a sentinel only  *)
(* when it was wrapped into the chain.                                     *)

ErrMissingTitle == "missing required title metadata"
ErrNoChapters == "document has no chapters"
ErrInvalidDocument == "invalid document"
ErrWriter == "write error"       \* whatever error the zip writer reports

NoError == <<>>

\* fmt.Errorf(msg + ": %w", err)
Wrap(msg, err) == <<msg>> \o err

\* fmt.Errorf(msg): wraps nothing
Errorf(msg) == <<msg>>

\* errors.Is(err, target)
ErrorsIs(err, target) == \E i \in 1..Len(err) : err[i] = target

\* The error Build returns when !doc.Valid()
InvalidDocumentError == Errorf("invalid document: missing title or chapters")

----------------------------------------------------------------------------
(* Generators *)

ManifestItem(id, href, mediaType, properties) ==
    [id |-> id, href |-> href, mediaType |-> mediaType, properties |-> properties]

\* {{range .Chapters}} <item .../> of packageTemplate
ChapterItems(chapters) ==
    [i \in 1..Len(chapters) |->
        ManifestItem(chapters[i].id, chapters[i].fileName, "application/xhtml+xml", "")]

\* {{range .Resources}} <item .../> of packageTemplate
ResourceItems(resources) ==
    [i \in 1..Len(resources) |->
        ManifestItem(resources[i].id, resources[i].fileName, resources[i].mediaType,
                     IF resources[i].isCover THEN "cover-image" ELSE "")]

\* The manifest with the stylesheet item left out
ManifestNoStylesheet(d) ==
    << ManifestItem("nav", "nav.xhtml", "application/xhtml+xml", "nav") >>
    \o ChapterItems(d.chapters) \o ResourceItems(d.resources)

\* <manifest> of packageTemplate
Manifest(d) ==
    << ManifestItem("nav", "nav.xhtml", "application/xhtml+xml", "nav"),
       ManifestItem("css", "styles/default.css", "text/css", "") >>
    \o ChapterItems(d.chapters) \o ResourceItems(d.resources)

\* <spine> of packageTemplate: {{range .Chapters}} <itemref idref="{{.ID}}"/>
Spine(d) == [i \in 1..Len(d.chapters) |-> d.chapters[i].id]

\* generatePackageDocument
generatePackageDocument(d) ==
    [ identifier |-> EscapeString(d.meta.identifier),
      title |-> EscapeString(d.meta.title),
      language |-> EscapeString(d.meta.language),
      authors |-> [i \in 1..Len(d.meta.authors) |-> EscapeString(d.meta.authors[i])],
      description |-> EscapeString(d.meta.description),
      publisher |-> EscapeString(d.meta.publisher),
      rights |-> EscapeString(d.meta.rights),
      date |-> d.meta.date,
      modified |-> Now,
      manifest |-> Manifest(d),
      spine |-> Spine(d) ]

\* The pieces renderTOCList writes: tags, and anchors with href and text
OlOpen == [tag |-> "ol", close |-> FALSE]
OlClose == [tag |-> "ol", close |-> TRUE]
LiOpen == [tag |-> "li", close |-> FALSE]
LiClose == [tag |-> "li", close |-> TRUE]
Anchor(href, text) == [tag |-> "a", href |-> href, text |-> text]

\* renderTOCEntry writing an entry's children after its </li>, not inside
RECURSIVE renderTOCEntryFlat(_)
renderTOCEntryFlat(entry) ==
    <<LiOpen, Anchor(entry.href, EscapeToken(entry.title)), LiClose>>
    \o Concat([i \in 1..Len(entry.children) |-> renderTOCEntryFlat(entry.children[i])])

\* renderTOCEntry: what it appends to the buffer (indentation left out)
RECURSIVE renderTOCEntry(_)
renderTOCEntry(entry) ==
    <<LiOpen, Anchor(entry.href, EscapeToken(entry.title))>>
    \o (IF Len(entry.children) > 0
          THEN <<OlOpen>>
               \o Concat([i \in 1..Len(entry.children) |-> renderTOCEntry(entry.children[i])])
               \o <<OlClose>>
          ELSE <<>>)
    \o <<LiClose>>

\* renderTOCList
renderTOCList(entries) ==
    IF Len(entries) = 0 THEN <<OlOpen, OlClose>>
    ELSE <<OlOpen>>
         \o Concat([i \in 1..Len(entries) |-> renderTOCEntry(entries[i])])
         \o <<OlClose>>

\* generateNavDocument with the landmark pointing at the last chapter
generateNavDocumentLastChapter(d) ==
    [ generated |-> TRUE,
      stylesheet |-> "styles/default.css",
      tocList |-> renderTOCList(d.toc),
      landmarks |->
        << [type |-> "toc", href |-> "nav.xhtml"] >> \o
        (IF Len(d.chapters) > 0
            THEN << [type |-> "bodymatter", href |-> d.chapters[Len(d.chapters)].fileName] >>
            ELSE << >>) ]

\* generateNavDocument: head and landmarks block
generateNavDocument(d) ==
    [ generated |-> TRUE,
      stylesheet |-> "styles/default.css",
      tocList |-> renderTOCList(d.toc),
      landmarks |->
        << [type |-> "toc", href |-> "nav.xhtml"] >> \o
        (IF Len(d.chapters) > 0
            THEN << [type |-> "bodymatter", href |-> d.chapters[1].fileName] >>
            ELSE << >>) ]

\* generateContentDocument
generateContentDocument(chapter, bookTitle) ==
    [ title |-> EscapeString(IF chapter.title = <<>> THEN bookTitle ELSE chapter.title),
      stylesheet |-> "styles/default.css",
      body |-> chapter.content ]

----------------------------------------------------------------------------
(* The archive *)

Entry(name, method, data) == [name |-> name, method |-> method, data |-> data]

\* The mimetype entry created with zw.Create, which deflates
MimetypeEntryDeflated ==
    Entry(<<"", "mimetype">>, "Deflate", [text |-> "application/epub+zip"])

\* zw.CreateHeader(&zip.FileHeader{Name: "mimetype", Method: zip.Store}) + Write
MimetypeEntry == Entry(<<"", "mimetype">>, "Store", [text |-> "application/epub+zip"])

\* zw.Create("META-INF/container.xml") + Write
ContainerEntry ==
    Entry(<<"META-INF/", "container.xml">>, "Deflate",
          [rootfile |-> <<"OEBPS/", "content.opf">>])

PackageEntry(d) ==
    Entry(<<"OEBPS/", "content.opf">>, "Deflate", generatePackageDocument(d))

NavEntry(d) == Entry(<<"OEBPS/", "nav.xhtml">>, "Deflate", generateNavDocument(d))

ContentEntry(d, i) ==
    Entry(<<"OEBPS/", d.chapters[i].fileName>>, "Deflate",
          generateContentDocument(d.chapters[i], d.meta.title))

\* writeResources creating the entry without the "OEBPS/" directory
ResourceEntryUnprefixed(d, i) ==
    Entry(<<"", d.resources[i].fileName>>, "Deflate",
          [bytes |-> d.resources[i].data])

ResourceEntry(d, i) ==
    Entry(<<"OEBPS/", d.resources[i].fileName>>, "Deflate",
          [bytes |-> d.resources[i].data])

StylesheetEntry ==
    Entry(<<"OEBPS/", "styles/default.css">>, "Deflate",
          [text |-> "/* Default EPUB stylesheet */"])

NilBytes == [isNil |-> TRUE, entries |-> <<>>, directory |-> FALSE]
NoReturn == [returned |-> FALSE, bytes |-> NilBytes, err |-> NoError]
NewWriter == [entries |-> <<>>, closed |-> "open"]

\* The attribution chapter addColophon appends
Colophon(d) ==
    Chapter("colophon", <<"About This EPUB">>, 1, "<hr/><div>Packaged by ...</div>",
            "content/colophon.xhtml", Len(d.chapters))

\* addColophon putting the attribution chapter first
addColophonFirst(d) == [d EXCEPT !.chapters = <<Colophon(d)>> \o @]

\* addColophon
addColophon(d) == AddChapter(d, Colophon(d))

----------------------------------------------------------------------------
(* Builder.Build, step by step.  Every write to the archive may fail with  *)
(* a writer-level error (ok = FALSE); writeEPUB then returns the error     *)
(* wrapped with the phase, and Build wraps it again and returns nil bytes. *)

\* Build returning the buffer written so far together with the error
FailWriteKeepsBytes(phase) ==
    /\ ret' = [returned |-> TRUE,
               bytes |-> [isNil |-> FALSE, entries |-> zw.entries, directory |-> FALSE],
               err |-> Wrap("building EPUB", Wrap(phase, <<ErrWriter>>))]
    /\ pc' = "done"
    /\ UNCHANGED <<zw, ci, ri>>

\* Build's "return nil, fmt.Errorf("building EPUB: %w", err)" with
\* writeEPUB's "return fmt.Errorf(phase + ": %w", err)"
FailWrite(phase) ==
    /\ ret' = [returned |-> TRUE, bytes |-> NilBytes,
               err |-> Wrap("building EPUB", Wrap(phase, <<ErrWriter>>))]
    /\ pc' = "done"
    /\ UNCHANGED <<zw, ci, ri>>

\* writeEPUB with the stylesheet written before the resources
PhaseAfterStylesheetFirst(phase) ==
    CASE phase = "mimetype"   -> "container"
      [] phase = "container"  -> "opf"
      [] phase = "opf"        -> "nav"
      [] phase = "nav"        -> "content"
      [] phase = "content"    -> "stylesheet"
      [] phase = "stylesheet" -> "resources"
      [] phase = "resources"  -> "return"

\* The order of the phases of writeEPUB (its statements 1 to 7, then return)
PhaseAfter(phase) ==
    CASE phase = "mimetype"   -> "container"
      [] phase = "container"  -> "opf"
      [] phase = "opf"        -> "nav"
      [] phase = "nav"        -> "content"
      [] phase = "content"    -> "resources"
      [] phase = "resources"  -> "stylesheet"
      [] phase = "stylesheet" -> "return"

\* A range loop over an empty slice does nothing: the phase is passed over
RECURSIVE SkipEmpty(_, _)
SkipEmpty(d, phase) ==
    IF (phase = "content" /\ Len(d.chapters) = 0) \/
       (phase = "resources" /\ Len(d.resources) = 0)
      THEN SkipEmpty(d, PhaseAfter(phase))
      ELSE phase

\* One entry written: zw.Create / zw.CreateHeader followed by Write
WriteEntry(e, next) ==
    /\ zw' = [zw EXCEPT !.entries = Append(@, e)]
    /\ pc' = next
    /\ UNCHANGED ret

\* Build, lines 32-44: store the document, EnsureDefaults, validate, addColophon
Build ==
    /\ pc \in {"idle", "done"}
    /\ builds < MaxBuilds
    /\ \E uuid \in UUIDs :
         LET d1 == [doc EXCEPT !.meta = EnsureDefaults(@, uuid)] IN
         /\ input' = doc
         /\ bdoc' = "doc"
         /\ builds' = builds + 1
         /\ zw' = NewWriter
         /\ ci' = 1
         /\ ri' = 1
         /\ IF ~Valid(d1)
              THEN /\ doc' = d1
                   /\ ret' = [returned |-> TRUE, bytes |-> NilBytes,
                              err |-> InvalidDocumentError]
                   /\ pc' = "done"
              ELSE /\ doc' = addColophon(d1)
                   /\ ret' = NoReturn
                   /\ pc' = "mimetype"     \* writeEPUB entered
    /\ UNCHANGED <<tocVars, metaVars, nav, convVars, disk, shVars>>

writeMimetype ==
    /\ pc = "mimetype"
    /\ \E ok \in BOOLEAN :
         IF ok THEN WriteEntry(MimetypeEntry, SkipEmpty(doc, PhaseAfter("mimetype"))) /\ UNCHANGED <<ci, ri>>
               ELSE FailWrite("writing mimetype")
    /\ UNCHANGED <<doc, input, bdoc, builds>>
    /\ UNCHANGED <<tocVars, metaVars, nav, convVars, disk, shVars>>

writeContainer ==
    /\ pc = "container"
    /\ \E ok \in BOOLEAN :
         IF ok THEN WriteEntry(ContainerEntry, SkipEmpty(doc, PhaseAfter("container"))) /\ UNCHANGED <<ci, ri>>
               ELSE FailWrite("writing container.xml")
    /\ UNCHANGED <<doc, input, bdoc, builds>>
    /\ UNCHANGED <<tocVars, metaVars, nav, convVars, disk, shVars>>

writePackageDocument ==
    /\ pc = "opf"
    /\ \E ok \in BOOLEAN :
         IF ok THEN WriteEntry(PackageEntry(doc), SkipEmpty(doc, PhaseAfter("opf"))) /\ UNCHANGED <<ci, ri>>
               ELSE FailWrite("writing content.opf")
    /\ UNCHANGED <<doc, input, bdoc, builds>>
    /\ UNCHANGED <<tocVars, metaVars, nav, convVars, disk, shVars>>

writeNavDocument ==
    /\ pc = "nav"
    /\ \E ok \in BOOLEAN :
         IF ok THEN WriteEntry(NavEntry(doc), SkipEmpty(doc, PhaseAfter("nav"))) /\ UNCHANGED <<ci, ri>>
               ELSE FailWrite("writing nav.xhtml")
    /\ UNCHANGED <<doc, input, bdoc, builds>>
    /\ UNCHANGED <<tocVars, metaVars, nav, convVars, disk, shVars>>

\* One iteration of the loop of writeContentDocuments
writeContentDocuments ==
    /\ pc = "content"
    /\ ci <= Len(doc.chapters)
    /\ \E ok \in BOOLEAN :
         IF ok THEN /\ WriteEntry(ContentEntry(doc, ci),
                                  IF ci = Len(doc.chapters)
                                    THEN SkipEmpty(doc, PhaseAfter("content"))
                                    ELSE "content")
                    /\ ci' = ci + 1
                    /\ UNCHANGED ri
               ELSE FailWrite("writing content documents")
    /\ UNCHANGED <<doc, input, bdoc, builds>>
    /\ UNCHANGED <<tocVars, metaVars, nav, convVars, disk, shVars>>

\* One iteration of the loop of writeResources
writeResources ==
    /\ pc = "resources"
    /\ ri <= Len(doc.resources)
    /\ \E ok \in BOOLEAN :
         IF ok THEN /\ WriteEntry(ResourceEntry(doc, ri),
                                  IF ri = Len(doc.resources)
                                    THEN SkipEmpty(doc, PhaseAfter("resources"))
                                    ELSE "resources")
                    /\ ri' = ri + 1
                    /\ UNCHANGED ci
               ELSE FailWrite("writing resources")
    /\ UNCHANGED <<doc, input, bdoc, builds>>
    /\ UNCHANGED <<tocVars, metaVars, nav, convVars, disk, shVars>>

writeDefaultStylesheet ==
    /\ pc = "stylesheet"
    /\ \E ok \in BOOLEAN :
         IF ok THEN WriteEntry(StylesheetEntry, SkipEmpty(doc, PhaseAfter("stylesheet"))) /\ UNCHANGED <<ci, ri>>
               ELSE FailWrite("writing stylesheet")
    /\ UNCHANGED <<doc, input, bdoc, builds>>
    /\ UNCHANGED <<tocVars, metaVars, nav, convVars, disk, shVars>>

\* writeEPUB returns nil: the deferred zw.Close() runs and its error is
\* dropped; Build returns buf.Bytes(), nil
ReturnBytes ==
    /\ pc = "return"
    /\ \E closeOk \in BOOLEAN :
         /\ zw' = [zw EXCEPT !.closed = IF closeOk THEN "ok" ELSE "failed"]
         /\ ret' = [returned |-> TRUE,
                    bytes |-> [isNil |-> FALSE, entries |-> zw.entries,
                               directory |-> closeOk],
                    err |-> NoError]
    /\ pc' = "done"
    /\ UNCHANGED <<doc, input, bdoc, ci, ri, builds>>
    /\ UNCHANGED <<tocVars, metaVars, nav, convVars, disk, shVars>>

Init ==
    /\ doc \in Documents
    /\ input = doc
    /\ bdoc = "nil"
    /\ pc = "idle"
    /\ zw = NewWriter
    /\ ci = 1
    /\ ri = 1
    /\ ret = NoReturn
    /\ builds = 0
    /\ headings = <<>>
    /\ hi = 0
    /\ heap = <<>>
    /\ tocEntries = [arr |-> 0, len |-> 0, cap |-> 0]
    /\ stack = <<>>
    /\ meta = ZeroMetadata
    /\ metaPrev = ZeroMetadata
    /\ metaOverride = NilMetadata
    /\ metaLog = <<>>
    /\ nav = NoNav
    /\ ConvIdle
    /\ SharedIdle
    /\ FsIdle

Next ==
    \/ Build
    \/ writeMimetype
    \/ writeContainer
    \/ writePackageDocument
    \/ writeNavDocument
    \/ writeContentDocuments
    \/ writeResources
    \/ writeDefaultStylesheet
    \/ ReturnBytes

Spec == Init /\ [][Next]_vars

----------------------------------------------------------------------------
(* TableOfContents and BuildFromHeadings, with Go's slices: a slice is a   *)
(* header [arr, len, cap] over a backing array of the heap (arr = 0: no    *)
(* array yet), an element of a slice is copied by value, and a *TOCEntry   *)
(* is the address [arr, idx] of an array slot.  append writes in place     *)
(* while len < cap and otherwise allocates a new array and copies; the old *)
(* array stays where it is, so addresses into it go stale.                 *)

Heading(title, href, level) == [title |-> title, href |-> href, level |-> level]

HeadingPool ==
    { Heading(t, "content/chapter-001.xhtml#s", l) : t \in {"A", "B"}, l \in 1..MaxLevel }

\* The closest heading before the i-th with a strictly smaller level, 0 if
\* there is none
NearestShallower(hs, i) ==
    LET S == {j \in 1..(i - 1) : hs[j].level < hs[i].level} IN
    IF S = {} THEN 0 ELSE CHOOSE j \in S : \A k \in S : k <= j

\* The headings whose nearest shallower heading is p, in order
ChildIndexes(hs, p) ==
    SelectSeq([k \in 1..Len(hs) |-> k], LAMBDA k : NearestShallower(hs, k) = p)

\* chapterFile + "#" + h.ID for the i-th heading of a file
SectionHref(i) ==
    <<"content/chapter-001.xhtml#s1", "content/chapter-001.xhtml#s2",
      "content/chapter-001.xhtml#s3", "content/chapter-001.xhtml#s4",
      "content/chapter-001.xhtml#s5", "content/chapter-001.xhtml#s6">>[i]

\* The entry of the i-th heading with the entries below it, as a value
RECURSIVE EntryTree(_, _)
EntryTree(hs, i) ==
    TOCEntry(hs[i].title, SectionHref(i), hs[i].level,
             [k \in 1..Len(ChildIndexes(hs, i)) |-> EntryTree(hs, ChildIndexes(hs, i)[k])])

\* The Document.TOC.Entries a parser's buildTOC leaves for its headings
TreeOfHeadings(hs) ==
    [k \in 1..Len(ChildIndexes(hs, 0)) |-> EntryTree(hs, ChildIndexes(hs, 0)[k])]

\* Tables of contents of every shape up to the bounds: none, flat, nested,
\* with levels skipped; every other title needs escaping
NavTOCs ==
    { TreeOfHeadings([i \in 1..Len(ls) |->
                        Heading(IF i % 2 = 1 THEN "&" ELSE "A", "", ls[i])]) :
        ls \in SeqUpTo(1..MaxLevel, MaxHeadings) }

\* Documents of one chapter carrying these tables of contents
NavDocuments ==
    { [d EXCEPT !.toc = t] :
        d \in {x \in Documents : x.meta.title = <<"T">> /\ x.meta.date = 1
                                  /\ x.meta.identifier # <<>> /\ x.meta.language # <<>>
                                  /\ x.meta.authors = <<>> /\ x.resources = <<>>
                                  /\ Len(x.chapters) = 1 /\ x.chapters[1].id = "ch1"},
        t \in NavTOCs }

\* make([]TOCEntry, 0)
EmptySlice == [arr |-> 0, len |-> 0, cap |-> 0]

ZeroEntry == [title |-> "", href |-> "", level |-> 0, children |-> EmptySlice]

\* runtime.growslice for 64-byte elements and small slices
GrowCap(oldCap, newLen) == IF newLen > 2 * oldCap THEN newLen ELSE 2 * oldCap

\* append(slice, e): the heap and the slice header afterwards
AppendSlice(h, hdr, e) ==
    IF hdr.len < hdr.cap
      THEN [heap |-> [h EXCEPT ![hdr.arr][hdr.len + 1] = e],
            hdr |-> [hdr EXCEPT !.len = @ + 1]]
      ELSE LET newCap == GrowCap(hdr.cap, hdr.len + 1)
               newArr == [i \in 1..newCap |->
                            IF i <= hdr.len THEN h[hdr.arr][i]
                            ELSE IF i = hdr.len + 1 THEN e
                            ELSE ZeroEntry]
           IN [heap |-> Append(h, newArr),
               hdr |-> [arr |-> Len(h) + 1, len |-> hdr.len + 1, cap |-> newCap]]

\* *p for a *TOCEntry p
Deref(h, p) == h[p.arr][p.idx]

\* The address of the first element instead of the last
AddressOfFirst(hdr) == [arr |-> hdr.arr, idx |-> 1]

\* &s[len(s)-1]: the address of the last element of a slice
AddressOfLast(hdr) == [arr |-> hdr.arr, idx |-> hdr.len]

\* The pop test with > for >=: an equal level stays open
PopConditionGreater(topLevel, entryLevel) == topLevel > entryLevel

\* for len(stack) > 0 && stack[len(stack)-1].Level >= entry.Level { pop }
PopCondition(topLevel, entryLevel) == topLevel >= entryLevel

\* The pop loop run for one iteration at most
PopStackOnce(h, st, level) ==
    IF st # <<>> /\ PopCondition(Deref(h, st[Len(st)]).level, level)
      THEN SubSeq(st, 1, Len(st) - 1)
      ELSE st

\* The pop loop of BuildFromHeadings: the stack it leaves
RECURSIVE PopStack(_, _, _)
PopStack(h, st, level) ==
    IF st # <<>> /\ PopCondition(Deref(h, st[Len(st)]).level, level)
      THEN PopStack(h, SubSeq(st, 1, Len(st) - 1), level)
      ELSE st

\* The tree a slice header denotes: what a reader of the returned TOC sees
RECURSIVE ReadEntries(_, _)
ReadEntries(h, hdr) ==
    [i \in 1..hdr.len |->
        LET e == h[hdr.arr][i] IN
        [title |-> e.title, href |-> e.href, level |-> e.level,
         children |-> ReadEntries(h, e.children)]]

\* flattenEntry
RECURSIVE flattenEntry(_)
flattenEntry(entry) ==
    <<entry>> \o Concat([i \in 1..Len(entry.children) |-> flattenEntry(entry.children[i])])

\* TableOfContents.FlatEntries
FlatEntries(entries) == Concat([i \in 1..Len(entries) |-> flattenEntry(entries[i])])

\* The bottom of the stack taken for its top
Bottom(st) == st[1]

\* stack[len(stack)-1]
Top(st) == st[Len(st)]

\* BuildFromHeadings, lines 164-170: toc := NewTableOfContents(); var stack
BuildFromHeadings ==
    /\ hi = 0
    /\ hi' = 1
    /\ tocEntries' = EmptySlice
    /\ stack' = <<>>
    /\ UNCHANGED <<headings, heap>>
    /\ UNCHANGED <<buildVars, metaVars, nav, convVars, disk, shVars>>

\* One iteration of the loop of BuildFromHeadings
BuildFromHeadingsStep ==
    /\ hi >= 1
    /\ hi <= Len(headings)
    /\ LET entry == [title |-> headings[hi].title, href |-> headings[hi].href,
                     level |-> headings[hi].level, children |-> EmptySlice]
           st == PopStack(heap, stack, entry.level)
       IN IF st = <<>>
            THEN LET r == AppendSlice(heap, tocEntries, entry) IN
                 /\ heap' = r.heap
                 /\ tocEntries' = r.hdr
                 /\ stack' = <<AddressOfLast(r.hdr)>>
            ELSE LET parent == Top(st)
                     r == AppendSlice(heap, Deref(heap, parent).children, entry)
                 IN
                 /\ heap' = [r.heap EXCEPT ![parent.arr][parent.idx].children = r.hdr]
                 /\ tocEntries' = tocEntries
                 /\ stack' = Append(st, AddressOfLast(r.hdr))
    /\ hi' = hi + 1
    /\ UNCHANGED headings
    /\ UNCHANGED <<buildVars, metaVars, nav, convVars, disk, shVars>>

\* BuildFromHeadings has returned
TocDone == hi = Len(headings) + 1

\* The TOC a caller reads after the return
TocResult == ReadEntries(heap, tocEntries)

InitTOC ==
    /\ doc = CHOOSE d \in Documents : TRUE
    /\ input = doc
    /\ bdoc = "nil"
    /\ pc = "idle"
    /\ zw = NewWriter
    /\ ci = 1
    /\ ri = 1
    /\ ret = NoReturn
    /\ builds = 0
    /\ headings \in SeqUpTo(HeadingPool, MaxHeadings)
    /\ hi = 0
    /\ heap = <<>>
    /\ tocEntries = EmptySlice
    /\ stack = <<>>
    /\ meta = ZeroMetadata
    /\ metaPrev = ZeroMetadata
    /\ metaOverride = NilMetadata
    /\ metaLog = <<>>
    /\ nav = NoNav
    /\ ConvIdle
    /\ SharedIdle
    /\ FsIdle

NextTOC ==
    \/ BuildFromHeadings
    \/ BuildFromHeadingsStep

SpecTOC == InitTOC /\ [][NextTOC]_vars

----------------------------------------------------------------------------
(* generateNavDocument called on a Document of any shape, with or without   *)
(* chapters                                                                 *)

\* nav, err := generateNavDocument(doc)
GenerateNav ==
    /\ nav = NoNav
    /\ nav' = generateNavDocument(doc)
    /\ UNCHANGED <<buildVars, tocVars, metaVars, convVars, disk, shVars>>

InitNav ==
    /\ doc \in Documents \cup NavDocuments
    /\ input = doc
    /\ bdoc = "nil"
    /\ pc = "idle"
    /\ zw = NewWriter
    /\ ci = 1
    /\ ri = 1
    /\ ret = NoReturn
    /\ builds = 0
    /\ headings = <<>>
    /\ hi = 0
    /\ heap = <<>>
    /\ tocEntries = EmptySlice
    /\ stack = <<>>
    /\ meta = ZeroMetadata
    /\ metaPrev = ZeroMetadata
    /\ metaOverride = NilMetadata
    /\ metaLog = <<>>
    /\ nav = NoNav
    /\ ConvIdle
    /\ SharedIdle
    /\ FsIdle

NextNav == GenerateNav

SpecNav == InitNav /\ [][NextNav]_vars

----------------------------------------------------------------------------
(* Metadata calls: Merge, EnsureDefaults and MergeMetadata applied, in any  *)
(* order, to a *Metadata                                                    *)

MaxMetaCalls == 2

MetaFields == DOMAIN ZeroMetadata

\* A Metadata with every field set
BaseFull ==
    [title |-> <<"T">>, authors |-> << <<"A1">> >>, language |-> <<"fr">>,
     identifier |-> <<"urn:isbn:1">>, description |-> <<"d">>, publisher |-> <<"p">>,
     date |-> 1, rights |-> <<"r">>, coverImage |-> <<"c.jpg">>]

\* Another one, differing from BaseFull in every field
OverrideFull ==
    [title |-> <<"T2">>, authors |-> << <<"A2">>, <<"A3">> >>, language |-> <<"de">>,
     identifier |-> <<"urn:isbn:2">>, description |-> <<"d2">>, publisher |-> <<"p2">>,
     date |-> 3, rights |-> <<"r2">>, coverImage |-> <<"c2.jpg">>]

\* Receivers: nothing set, or everything but any of language, identifier, date
MetaBases ==
    {ZeroMetadata} \cup
    { [BaseFull EXCEPT !.language = l, !.identifier = id, !.date = dt] :
        l \in {<<>>, <<"fr">>}, id \in {<<>>, <<"urn:isbn:1">>}, dt \in {0, 1} }

\* Overrides: nothing set, everything set, or exactly one field set
MetaOverrides ==
    {ZeroMetadata, OverrideFull} \cup
    { [ZeroMetadata EXCEPT ![f] = OverrideFull[f]] : f \in MetaFields }

\* m.Merge(override)
MetaMerge ==
    /\ Len(metaLog) < MaxMetaCalls
    /\ \E override \in MetaOverrides :
         /\ meta' = Merge(meta, override)
         /\ metaOverride' = override
    /\ metaPrev' = meta
    /\ metaLog' = Append(metaLog, "Merge")
    /\ UNCHANGED <<buildVars, tocVars, nav, convVars, disk, shVars>>

\* m.EnsureDefaults()
MetaEnsureDefaults ==
    /\ Len(metaLog) < MaxMetaCalls
    /\ \E uuid \in UUIDs : meta' = EnsureDefaults(meta, uuid)
    /\ metaPrev' = meta
    /\ metaLog' = Append(metaLog, "EnsureDefaults")
    /\ UNCHANGED metaOverride
    /\ UNCHANGED <<buildVars, tocVars, nav, convVars, disk, shVars>>

\* m = MergeMetadata(source, cli)
MetaMergeMetadata ==
    /\ Len(metaLog) < MaxMetaCalls
    /\ \E source \in MetaBases \cup {NilMetadata}, cli \in MetaOverrides \cup {NilMetadata},
          uuid \in UUIDs :
         /\ meta' = MergeMetadata(source, cli, uuid)
         /\ metaPrev' = source
         /\ metaOverride' = cli
    /\ metaLog' = Append(metaLog, "MergeMetadata")
    /\ UNCHANGED <<buildVars, tocVars, nav, convVars, disk, shVars>>

InitMeta ==
    /\ doc = CHOOSE d \in Documents : TRUE
    /\ input = doc
    /\ bdoc = "nil"
    /\ pc = "idle"
    /\ zw = NewWriter
    /\ ci = 1
    /\ ri = 1
    /\ ret = NoReturn
    /\ builds = 0
    /\ headings = <<>>
    /\ hi = 0
    /\ heap = <<>>
    /\ tocEntries = EmptySlice
    /\ stack = <<>>
    /\ meta \in MetaBases
    /\ metaPrev = meta
    /\ metaOverride = NilMetadata
    /\ metaLog = <<>>
    /\ nav = NoNav
    /\ ConvIdle
    /\ SharedIdle
    /\ FsIdle

NextMeta ==
    \/ MetaMerge
    \/ MetaEnsureDefaults
    \/ MetaMergeMetadata

SpecMeta == InitMeta /\ [][NextMeta]_vars

----------------------------------------------------------------------------
(* toepub convert <input>... : runConvert of package cli and                *)
(* Converter.Convert.  A path is a record of its text (name) and of what    *)
(* filepath.Dir, filepath.Base and filepath.Ext make of it; "" is the empty *)
(* string.  An error here is the text of err.Error(), a sequence of words.  *)

MaxInputs == 2

Path(name, dir, stem, ext) == [name |-> name, dir |-> dir, stem |-> stem, ext |-> ext]

\* The paths of the model, in the byte-wise order sort.Strings compares by
PathOrder ==
    << Path("a/b/doc.md", "a/b", "doc", ".md"),
       Path("b.html", "", "b", ".html"),
       Path("c.md", "", "c", ".md"),
       Path("docs", "", "docs", ""),
       Path("docs/n.md", "docs", "n", ".md"),
       Path("docs/z.txt", "docs", "z", ".txt"),
       Path("missing.md", "", "missing", ".md"),
       Path("x.txt", "", "x", ".txt") >>

PathNamed(name) == CHOOSE p \in {PathOrder[i] : i \in 1..Len(PathOrder)} : p.name = name

\* What os.Stat reports for a path
Stat(p) ==
    CASE p.name = "missing.md" -> "error"
      [] p.name = "docs"       -> "dir"
      [] OTHER                 -> "file"

\* os.ReadDir: the entries of a directory, sorted by file name
ReadDir(p) == IF p.name = "docs" THEN <<PathNamed("docs/n.md"), PathNamed("docs/z.txt")>> ELSE <<>>

\* The arguments a user may give
InputPool == {PathNamed(n) : n \in {"a/b/doc.md", "b.html", "c.md", "docs", "missing.md", "x.txt"}}

\* An output path dir/stem+ext+".epub"; the directory "" is the working
\* directory
OutPath(dir, stem, ext) == [dir |-> dir, file |-> <<stem, ext, ".epub">>]

\* The empty string as an output path: no --output given
EmptyPath == [dir |-> "", file |-> <<"", "", "">>]

\* The flags of the convert command; "" and <<>> are a flag not given
FlagSets ==
    [ title : {<<>>, <<"CLI Title">>},
      author : {<<>>, <<"CLI Author">>},
      language : {<<>>, <<"es">>},
      cover : {<<>>, <<"cover.jpg">>},
      output : {EmptyPath, OutPath("out", "book", "")},
      inputFormat : {"", "md", "epub"} ]

ExitSuccess == 0
ExitGeneralError == 1
ExitFileNotFound == 64
ExitFormatError == 65
ExitNotWritable == 66

ErrNoInput == <<"no", "input", "files", "specified">>
ErrFileNotFound == <<"file", "not", "found">>
ErrUnsupportedFmt == <<"unsupported", "input", "format">>
ErrOutputNotWrite == <<"output", "path", "not", "writable">>

\* fmt.Errorf("%w: " + detail, err)
ErrorfDetail(err, detail) == err \o <<":">> \o detail

\* fmt.Errorf(prefix + ": %w", err)
ErrorfPrefix(prefix, err) == prefix \o <<":">> \o err

\* strings.Contains, on words
Contains(text, needle) ==
    \E i \in 1..(Len(text) - Len(needle) + 1) :
        SubSeq(text, i, i + Len(needle) - 1) = needle

\* determineExitCode
determineExitCode(err) ==
    IF err = NoError THEN ExitSuccess
    ELSE IF Contains(err, <<"file", "not", "found">>) \/ Contains(err, <<"no", "such", "file">>)
      THEN ExitFileNotFound
    ELSE IF Contains(err, <<"unsupported", "format">>) \/ Contains(err, <<"unknown", "format">>)
      THEN ExitFormatError
    ELSE IF Contains(err, <<"permission", "denied">>) \/ Contains(err, <<"not", "writable">>)
      THEN ExitNotWritable
    ELSE ExitGeneralError

\* buildCLIMetadata
buildCLIMetadata(f) ==
    [NewMetadata EXCEPT
        !.title = IF f.title # <<>> THEN f.title ELSE @,
        !.authors = IF f.author # <<>> THEN <<f.author>> ELSE @,
        !.language = IF f.language # <<>> THEN f.language ELSE @,
        !.coverImage = IF f.cover # <<>> THEN f.cover ELSE @]

\* resolveDefaultOutputPath
resolveDefaultOutputPath(inputs) ==
    IF Len(inputs) = 0 THEN OutPath("", "output", "")
    ELSE IF Len(inputs) = 1
      THEN IF Stat(inputs[1]) = "dir"
             THEN OutPath("", inputs[1].stem, inputs[1].ext)   \* filepath.Base(input) + ".epub"
             ELSE OutPath(inputs[1].dir, inputs[1].stem, "")   \* TrimSuffix(input, ext) + ".epub"
    ELSE OutPath("", "output", "")

\* The position of a path in byte-wise order
Rank(p) == CHOOSE i \in 1..Len(PathOrder) : PathOrder[i] = p

RECURSIVE InsertSorted(_, _)
InsertSorted(p, fs) ==
    IF fs = <<>> THEN <<p>>
    ELSE IF Rank(p) <= Rank(Head(fs)) THEN <<p>> \o fs
    ELSE <<Head(fs)>> \o InsertSorted(p, Tail(fs))

\* sort.Strings left out: the files stay in argument order
SortStringsAsGiven(fs) == fs

\* sort.Strings
RECURSIVE SortStrings(_)
SortStrings(fs) == IF fs = <<>> THEN <<>> ELSE InsertSorted(Head(fs), SortStrings(Tail(fs)))

\* isSupportedExtension
isSupportedExtension(ext) == ext \in {".md", ".markdown", ".html", ".htm", ".pdf"}

\* expandDirectory: the supported files of a directory, in os.ReadDir order
expandDirectory(dir) == SelectSeq(ReadDir(dir), LAMBDA e : isSupportedExtension(e.ext))

\* The loop of expandInputs over the inputs left, acc being files so far
RECURSIVE expandInputsLoop(_, _)
expandInputsLoop(inputs, acc) ==
    IF inputs = <<>> THEN [err |-> NoError, files |-> SortStrings(acc)]
    ELSE IF Stat(Head(inputs)) = "error"
      THEN [err |-> ErrorfDetail(ErrFileNotFound, <<Head(inputs).name>>), files |-> <<>>]
    ELSE IF Stat(Head(inputs)) = "dir"
      THEN expandInputsLoop(Tail(inputs), acc \o expandDirectory(Head(inputs)))
    ELSE expandInputsLoop(Tail(inputs), acc \o <<Head(inputs)>>)

\* expandInputs
expandInputs(inputs) == expandInputsLoop(inputs, <<>>)

\* detectFormatFromString
detectFormatFromString(str) ==
    CASE str \in {"md", "markdown"} -> "markdown"
      [] str \in {"html", "htm"}    -> "html"
      [] str = "pdf"                -> "pdf"
      [] OTHER                      -> "unknown"

\* detectFormat
detectFormat(file, explicit) ==
    IF explicit # "" THEN detectFormatFromString(explicit)
    ELSE CASE file.ext \in {".md", ".markdown"} -> "markdown"
           [] file.ext \in {".html", ".htm"}    -> "html"
           [] file.ext = ".pdf"                 -> "pdf"
           [] OTHER                             -> "unknown"

\* model.NewDocument
NewDocument == [meta |-> ZeroMetadata, chapters |-> <<>>, resources |-> <<>>, toc |-> <<>>]

\* The metadata a parser finds in a file: front matter or <meta> elements
SourceMetadata(file) ==
    CASE file.name = "a/b/doc.md" ->
            [ZeroMetadata EXCEPT !.title = <<"Doc">>, !.language = <<"fr">>,
                                 !.authors = << <<"Ann">> >>]
      [] file.name = "b.html" -> [ZeroMetadata EXCEPT !.title = <<"Page">>]
      [] file.name = "docs/n.md" ->
            [ZeroMetadata EXCEPT !.title = <<"N">>, !.language = <<"de">>]
      [] OTHER -> ZeroMetadata

\* extractImageRefs: one placeholder per local <img> of the file, with the
\* archive name and media type set and Data left nil (the empty byte slice)
extractImageRefs(file) ==
    IF file.name = "b.html"
      THEN << Resource("img1", "images/a.png", "image/png", "", FALSE) >>
      ELSE << >>

\* Parser.Parse: one chapter "chapter-001" holding the whole file, the table
\* of contents of its headings, and the images it embeds
Parse(file) ==
    [ meta |-> SourceMetadata(file),
      chapters |-> << Chapter("chapter-001", SourceMetadata(file).title, 1, file.name,
                              "content/chapter-001.xhtml", 0) >>,
      resources |-> extractImageRefs(file),
      toc |-> << TOCEntry("Intro", "content/chapter-001.xhtml#intro", 1, <<>>) >> ]

\* fmt.Sprintf("chapter-%03d", n)
ChapterID(n) ==
    <<"chapter-001", "chapter-002", "chapter-003", "chapter-004",
      "chapter-005", "chapter-006">>[n]

\* fmt.Sprintf("content/chapter-%03d.xhtml", n)
ChapterFileName(n) ==
    <<"content/chapter-001.xhtml", "content/chapter-002.xhtml",
      "content/chapter-003.xhtml", "content/chapter-004.xhtml",
      "content/chapter-005.xhtml", "content/chapter-006.xhtml">>[n]

\* mergeDocument(main, parsed, index): main afterwards
mergeDocument(main, parsed, index) ==
    LET offset == Len(main.chapters) IN
    [ meta |-> IF index = 0 THEN parsed.meta ELSE main.meta,
      chapters |-> main.chapters \o
          [i \in 1..Len(parsed.chapters) |->
              [parsed.chapters[i] EXCEPT !.order = offset + (i - 1),
                                         !.id = ChapterID(offset + (i - 1) + 1),
                                         !.fileName = ChapterFileName(offset + (i - 1) + 1)]],
      toc |-> main.toc \o parsed.toc,
      resources |-> main.resources \o parsed.resources ]

\* handleConvertError: report the error and os.Exit(determineExitCode(err));
\* jsonCode is the "code" outputJSON prints under --format json
Exit(err) ==
    /\ convResult' = [success |-> FALSE, err |-> err, output |-> EmptyPath,
                      exitCode |-> determineExitCode(err),
                      jsonCode |-> determineExitCode(err)]
    /\ cpc' = "exited"

\* runConvert up to the call of conv.Convert(args, opts)
runConvert ==
    /\ cpc = "runConvert"
    /\ cliMeta' = buildCLIMetadata(flags)
    /\ outputPath' = IF flags.output = EmptyPath
                       THEN resolveDefaultOutputPath(args)
                       ELSE flags.output
    /\ cpc' = "Convert"
    /\ UNCHANGED <<args, flags, files, fi, cdoc, convResult>>
    /\ UNCHANGED <<buildVars, tocVars, metaVars, nav, disk, shVars>>

\* Converter.Convert up to the parse loop: expandInputs, detectFormat
Convert ==
    /\ cpc = "Convert"
    /\ LET ex == expandInputs(args) IN
       IF ex.err # NoError
         THEN Exit(ex.err) /\ UNCHANGED <<files, fi, cdoc>>
       ELSE IF Len(ex.files) = 0
         THEN /\ Exit(ErrorfDetail(ErrNoInput, <<"no", "supported", "files", "found">>))
              /\ UNCHANGED <<files, fi, cdoc>>
       ELSE IF detectFormat(ex.files[1], flags.inputFormat) = "unknown"
         THEN /\ Exit(ErrorfDetail(ErrUnsupportedFmt,
                         <<"cannot", "detect", "format", "for", ex.files[1].name>>))
              /\ UNCHANGED <<files, fi, cdoc>>
       ELSE /\ files' = ex.files
            /\ fi' = 1
            /\ cdoc' = NewDocument
            /\ cpc' = "parse"
            /\ UNCHANGED convResult
    /\ UNCHANGED <<args, flags, cliMeta, outputPath>>
    /\ UNCHANGED <<buildVars, tocVars, metaVars, nav, disk, shVars>>

\* One iteration of Convert's loop over files: ReadFile, Parse, mergeDocument
ConvertParseFile ==
    /\ cpc = "parse"
    /\ fi <= Len(files)
    /\ \E ok \in BOOLEAN :
         IF ok
           THEN /\ cdoc' = mergeDocument(cdoc, Parse(files[fi]), fi - 1)
                /\ fi' = fi + 1
                /\ UNCHANGED <<cpc, convResult>>
           ELSE /\ Exit(ErrorfPrefix(<<"parsing", files[fi].name>>, <<"parse", "error">>))
                /\ UNCHANGED <<fi, cdoc>>
    /\ UNCHANGED <<args, flags, cliMeta, outputPath, files>>
    /\ UNCHANGED <<buildVars, tocVars, metaVars, nav, disk, shVars>>

\* Convert after the loop: CLI overrides, title fallback, cover image
ConvertApplyOverrides ==
    /\ cpc = "parse"
    /\ fi > Len(files)
    /\ \E coverOk \in BOOLEAN :
         LET merged == Merge(cdoc.meta, cliMeta)
             titled == IF merged.title = <<>>
                         THEN [merged EXCEPT !.title = <<files[1].stem>>]
                         ELSE merged
             cover == Resource("cover-image", "images/cover.jpg", "image/jpeg",
                               "jpeg-bytes", TRUE)
         IN cdoc' = [cdoc EXCEPT
                        !.meta = titled,
                        !.resources = IF titled.coverImage # <<>> /\ coverOk
                                        THEN Append(@, cover) ELSE @]
    /\ cpc' = "build"
    /\ UNCHANGED <<args, flags, cliMeta, outputPath, files, fi, convResult>>
    /\ UNCHANGED <<buildVars, tocVars, metaVars, nav, disk, shVars>>

\* Convert's call c.builder.Build(doc)
ConvertBuild ==
    /\ cpc = "build"
    /\ \E uuid \in UUIDs, ok \in BOOLEAN :
         LET d1 == [cdoc EXCEPT !.meta = EnsureDefaults(@, uuid)] IN
         IF ~Valid(d1)
           THEN /\ cdoc' = d1
                /\ Exit(ErrorfPrefix(<<"building", "EPUB">>,
                           <<"invalid", "document", ":", "missing", "title", "or", "chapters">>))
         ELSE IF ~ok
           THEN /\ cdoc' = addColophon(d1)
                /\ Exit(ErrorfPrefix(<<"building", "EPUB">>,
                           ErrorfPrefix(<<"building", "EPUB">>,
                              ErrorfPrefix(<<"writing", "mimetype">>, <<"write", "error">>))))
         ELSE /\ cdoc' = addColophon(d1)
              /\ cpc' = "write"
              /\ UNCHANGED convResult
    /\ UNCHANGED <<args, flags, cliMeta, outputPath, files, fi>>
    /\ UNCHANGED <<buildVars, tocVars, metaVars, nav, disk, shVars>>

\* The failure of writeOutput: fmt.Errorf("%w: %s", ErrOutputNotWrite, err)
FailOutput(detail) == Exit(ErrorfDetail(ErrOutputNotWrite, detail))

\* Convert's default output path, and writeOutput up to os.MkdirAll
ConvertWriteOutput ==
    /\ cpc = "write"
    /\ LET out == IF outputPath = EmptyPath
                    THEN OutPath("", files[1].stem, "")
                    ELSE outputPath
       IN /\ outputPath' = out
          /\ \E ok \in BOOLEAN :
               IF out.dir # "" /\ ~ok
                 THEN FailOutput(<<"mkdir", "failed">>)
                 ELSE cpc' = "writeFile" /\ UNCHANGED convResult
    /\ UNCHANGED <<args, flags, cliMeta, files, fi, cdoc>>
    /\ UNCHANGED <<buildVars, tocVars, metaVars, nav, disk, shVars>>

\* writeOutput: os.WriteFile(path + ".tmp", data, 0644).  It can fail before
\* the file is created or truncated, or after some of the bytes are written;
\* writeOutput returns the error without removing the file
writeOutputWriteFile ==
    /\ cpc = "writeFile"
    /\ \E outcome \in {"written", "open failed", "write failed"} :
         CASE outcome = "written" ->
                /\ disk' = [disk EXCEPT !.tmp = "epub"]
                /\ cpc' = "rename"
                /\ UNCHANGED convResult
           [] outcome = "open failed" ->
                /\ UNCHANGED disk
                /\ FailOutput(<<"open", "failed">>)
           [] outcome = "write failed" ->
                /\ disk' = [disk EXCEPT !.tmp = "partial"]
                /\ FailOutput(<<"write", "failed">>)
    /\ UNCHANGED <<args, flags, cliMeta, outputPath, files, fi, cdoc>>
    /\ UNCHANGED <<buildVars, tocVars, metaVars, nav, shVars>>

\* writeOutput: os.Rename(tmpPath, path), with os.Remove(tmpPath) when it
\* fails; then Convert fills in the result
writeOutputRename ==
    /\ cpc = "rename"
    /\ \E ok \in BOOLEAN :
         IF ok
           THEN /\ disk' = [disk EXCEPT !.target = disk.tmp, !.tmp = "absent"]
                /\ convResult' = [success |-> TRUE, err |-> NoError, output |-> outputPath,
                                  exitCode |-> ExitSuccess, jsonCode |-> ExitSuccess]
                /\ cpc' = "exited"
           ELSE /\ disk' = [disk EXCEPT !.tmp = "absent"]
                /\ FailOutput(<<"rename", "failed">>)
    /\ UNCHANGED <<args, flags, cliMeta, outputPath, files, fi, cdoc>>
    /\ UNCHANGED <<buildVars, tocVars, metaVars, nav, shVars>>

InitConv ==
    /\ doc = CHOOSE d \in Documents : TRUE
    /\ input = doc
    /\ bdoc = "nil"
    /\ pc = "idle"
    /\ zw = NewWriter
    /\ ci = 1
    /\ ri = 1
    /\ ret = NoReturn
    /\ builds = 0
    /\ headings = <<>>
    /\ hi = 0
    /\ heap = <<>>
    /\ tocEntries = EmptySlice
    /\ stack = <<>>
    /\ meta = ZeroMetadata
    /\ metaPrev = ZeroMetadata
    /\ metaOverride = NilMetadata
    /\ metaLog = <<>>
    /\ nav = NoNav
    /\ args \in SeqUpTo(InputPool, MaxInputs) \ {<<>>}
    /\ flags \in FlagSets
    /\ cpc = "runConvert"
    /\ cliMeta = [nil |-> TRUE]
    /\ outputPath = EmptyPath
    /\ files = <<>>
    /\ fi = 0
    /\ cdoc = NewDocument
    /\ convResult = [none |-> TRUE]
    /\ \E before \in {"absent", "old"} :
         disk = [target |-> before, tmp |-> "absent", before |-> before]
    /\ SharedIdle

NextConv ==
    \/ runConvert
    \/ Convert
    \/ ConvertParseFile
    \/ ConvertApplyOverrides
    \/ ConvertBuild
    \/ ConvertWriteOutput
    \/ writeOutputWriteFile
    \/ writeOutputRename

SpecConv == InitConv /\ [][NextConv]_vars

----------------------------------------------------------------------------
(* Two Build calls.  Each call has its own Document and its own local      *)
(* zip.Writer; the calls use one Builder or two.  The callers either run   *)
(* the calls one after the other (synchronized) or let them interleave.    *)
(* Builder.doc is read again by every write function, so an unsynchronized *)
(* read races with the other call's store "b.doc = doc": it yields the     *)
(* pointer either call has stored.                                         *)

Calls == {1, 2}
Builders == {1, 2}

PoolChapter(id) == CHOOSE c \in ChapterPool : c.id = id
PoolResource(id) == CHOOSE r \in ResourcePool : r.id = id

CallerDocument(title, chapters, resources) ==
    [ meta |-> [ZeroMetadata EXCEPT !.title = title],
      chapters |-> chapters,
      resources |-> resources,
      toc |-> CHOOSE t \in DocumentTOCs : TRUE ]

\* The Documents the callers hand to Build; the last one is invalid
CallerDocuments ==
    { CallerDocument(<<"T">>, <<PoolChapter("ch1")>>, <<>>),
      CallerDocument(<<"A", "&", "<", "B">>, <<PoolChapter("ch2"), PoolChapter("ch3")>>,
                     <<PoolResource("img1")>>),
      CallerDocument(<<"U">>, <<PoolChapter("ch2")>>, <<PoolResource("cover-image")>>),
      CallerDocument(<<>>, <<>>, <<>>) }

\* uuid.New() gives each call its own identifier
CallUUID(c) == <<"urn:uuid:", IF c = 1 THEN "u1" ELSE "u2">>

\* A read of b.doc that races with every store, whatever the callers do
ReadsRacing(c) ==
    {builderDoc[calls[c].builder]}
        \cup {o \in Calls : calls[o].builder = calls[c].builder /\ calls[o].pc # "idle"}

\* The calls whose Document a read of b.doc by call c can yield: the last
\* one stored in the Builder and, when the callers do not synchronize, the
\* one any call on the same Builder has stored so far
Reads(c) ==
    {builderDoc[calls[c].builder]}
        \cup IF synchronized THEN {}
             ELSE {o \in Calls : calls[o].builder = calls[c].builder /\ calls[o].pc # "idle"}

\* The call moves on with its record changed
Becomes(c, rec) == calls' = [calls EXCEPT ![c] = rec]

\* A write to the archive failed: Build returns nil and the wrapped error
FailedCall(c) ==
    Becomes(c, [calls[c] EXCEPT !.pc = "done", !.ret = "error", !.entries = <<>>])

\* zw.Create and Write of one entry by call c, or their failure
WriteOf(c, e, next) ==
    \E ok \in BOOLEAN :
        IF ok THEN Becomes(c, [calls[c] EXCEPT !.entries = Append(@, e), !.pc = next])
              ELSE FailedCall(c)

\* Build, lines 32-44, of call c on its Builder
BuildOf(c) ==
    /\ calls[c].pc = "idle"
    /\ synchronized => \A o \in Calls \ {c} : calls[o].pc \in {"idle", "done"}
    /\ builderDoc' = [builderDoc EXCEPT ![calls[c].builder] = c]
    /\ LET d1 == [calls[c].doc EXCEPT !.meta = EnsureDefaults(@, CallUUID(c))] IN
       IF ~Valid(d1)
         THEN Becomes(c, [calls[c] EXCEPT !.doc = d1, !.pc = "done", !.ret = "error"])
         ELSE Becomes(c, [calls[c] EXCEPT !.doc = addColophon(d1), !.pc = "mimetype"])
    /\ UNCHANGED synchronized
    /\ UNCHANGED <<buildVars, tocVars, metaVars, nav, convVars, disk>>

writeMimetypeOf(c) ==
    /\ calls[c].pc = "mimetype"
    /\ WriteOf(c, MimetypeEntry, "container")
    /\ UNCHANGED <<synchronized, builderDoc>>
    /\ UNCHANGED <<buildVars, tocVars, metaVars, nav, convVars, disk>>

writeContainerOf(c) ==
    /\ calls[c].pc = "container"
    /\ WriteOf(c, ContainerEntry, "opf")
    /\ UNCHANGED <<synchronized, builderDoc>>
    /\ UNCHANGED <<buildVars, tocVars, metaVars, nav, convVars, disk>>

\* generatePackageDocument(b.doc)
writePackageDocumentOf(c) ==
    /\ calls[c].pc = "opf"
    /\ \E r \in Reads(c) : WriteOf(c, PackageEntry(calls[r].doc), "nav")
    /\ UNCHANGED <<synchronized, builderDoc>>
    /\ UNCHANGED <<buildVars, tocVars, metaVars, nav, convVars, disk>>

\* generateNavDocument(b.doc)
writeNavDocumentOf(c) ==
    /\ calls[c].pc = "nav"
    /\ \E r \in Reads(c) : WriteOf(c, NavEntry(calls[r].doc), "content")
    /\ UNCHANGED <<synchronized, builderDoc>>
    /\ UNCHANGED <<buildVars, tocVars, metaVars, nav, convVars, disk>>

\* "for _, chapter := range b.doc.Chapters": the slice is read once
rangeChaptersOf(c) ==
    /\ calls[c].pc = "content"
    /\ \E r \in Reads(c) :
         Becomes(c, [calls[c] EXCEPT
                        !.range = calls[r].doc.chapters,
                        !.k = 1,
                        !.pc = IF calls[r].doc.chapters = <<>> THEN "resources"
                               ELSE "chapter"])
    /\ UNCHANGED <<synchronized, builderDoc>>
    /\ UNCHANGED <<buildVars, tocVars, metaVars, nav, convVars, disk>>

\* One iteration: generateContentDocument(&chapter, b.doc.Metadata.Title)
writeContentDocumentsOf(c) ==
    /\ calls[c].pc = "chapter"
    /\ \E r \in Reads(c), ok \in BOOLEAN :
         LET chapter == calls[c].range[calls[c].k] IN
         IF ok
           THEN Becomes(c, [calls[c] EXCEPT
                   !.entries = Append(@, Entry(<<"OEBPS/", chapter.fileName>>, "Deflate",
                                  generateContentDocument(chapter, calls[r].doc.meta.title))),
                   !.k = @ + 1,
                   !.pc = IF calls[c].k = Len(calls[c].range) THEN "resources" ELSE "chapter"])
           ELSE FailedCall(c)
    /\ UNCHANGED <<synchronized, builderDoc>>
    /\ UNCHANGED <<buildVars, tocVars, metaVars, nav, convVars, disk>>

\* "for _, resource := range b.doc.Resources": the slice is read once
rangeResourcesOf(c) ==
    /\ calls[c].pc = "resources"
    /\ \E r \in Reads(c) :
         Becomes(c, [calls[c] EXCEPT
                        !.range = calls[r].doc.resources,
                        !.k = 1,
                        !.pc = IF calls[r].doc.resources = <<>> THEN "stylesheet"
                               ELSE "resource"])
    /\ UNCHANGED <<synchronized, builderDoc>>
    /\ UNCHANGED <<buildVars, tocVars, metaVars, nav, convVars, disk>>

\* One iteration of the loop of writeResources
writeResourcesOf(c) ==
    /\ calls[c].pc = "resource"
    /\ LET resource == calls[c].range[calls[c].k] IN
       \E ok \in BOOLEAN :
         IF ok
           THEN Becomes(c, [calls[c] EXCEPT
                   !.entries = Append(@, Entry(<<"OEBPS/", resource.fileName>>, "Deflate",
                                               [bytes |-> resource.data])),
                   !.k = @ + 1,
                   !.pc = IF calls[c].k = Len(calls[c].range) THEN "stylesheet" ELSE "resource"])
           ELSE FailedCall(c)
    /\ UNCHANGED <<synchronized, builderDoc>>
    /\ UNCHANGED <<buildVars, tocVars, metaVars, nav, convVars, disk>>

writeDefaultStylesheetOf(c) ==
    /\ calls[c].pc = "stylesheet"
    /\ WriteOf(c, StylesheetEntry, "return")
    /\ UNCHANGED <<synchronized, builderDoc>>
    /\ UNCHANGED <<buildVars, tocVars, metaVars, nav, convVars, disk>>

\* Build returns buf.Bytes(), nil
ReturnBytesOf(c) ==
    /\ calls[c].pc = "return"
    /\ Becomes(c, [calls[c] EXCEPT !.pc = "done", !.ret = "bytes"])
    /\ UNCHANGED <<synchronized, builderDoc>>
    /\ UNCHANGED <<buildVars, tocVars, metaVars, nav, convVars, disk>>

InitShared ==
    /\ doc = CHOOSE d \in Documents : TRUE
    /\ input = doc
    /\ bdoc = "nil"
    /\ pc = "idle"
    /\ zw = NewWriter
    /\ ci = 1
    /\ ri = 1
    /\ ret = NoReturn
    /\ builds = 0
    /\ headings = <<>>
    /\ hi = 0
    /\ heap = <<>>
    /\ tocEntries = EmptySlice
    /\ stack = <<>>
    /\ meta = ZeroMetadata
    /\ metaPrev = ZeroMetadata
    /\ metaOverride = NilMetadata
    /\ metaLog = <<>>
    /\ nav = NoNav
    /\ ConvIdle
    /\ FsIdle
    /\ synchronized \in BOOLEAN
    /\ builderDoc = [b \in Builders |-> 0]
    /\ \E second \in Builders, d1 \in CallerDocuments :
         \E d2 \in CallerDocuments \ {d1} :
           calls = [c \in Calls |->
                      [ builder |-> IF c = 1 THEN 1 ELSE second,
                        doc |-> IF c = 1 THEN d1 ELSE d2,
                        pc |-> "idle", entries |-> <<>>, range |-> <<>>, k |-> 1,
                        ret |-> "none" ]]

NextShared ==
    \E c \in Calls :
        \/ BuildOf(c)
        \/ writeMimetypeOf(c)
        \/ writeContainerOf(c)
        \/ writePackageDocumentOf(c)
        \/ writeNavDocumentOf(c)
        \/ rangeChaptersOf(c)
        \/ writeContentDocumentsOf(c)
        \/ rangeResourcesOf(c)
        \/ writeResourcesOf(c)
        \/ writeDefaultStylesheetOf(c)
        \/ ReturnBytesOf(c)

SpecShared == InitShared /\ [][NextShared]_vars

----------------------------------------------------------------------------
(* Properties of Build *)

\* Build has returned an archive
Succeeded == ret.returned /\ ~ret.bytes.isNil

\* The names of the entries of an archive, in the order written
Names(entries) == [i \in 1..Len(entries) |-> entries[i].name]

\* The entry names a build of document d is to produce, in order
ExpectedNames(d) ==
    << <<"", "mimetype">>, <<"META-INF/", "container.xml">>,
       <<"OEBPS/", "content.opf">>, <<"OEBPS/", "nav.xhtml">> >>
    \o [i \in 1..Len(d.chapters) |-> <<"OEBPS/", d.chapters[i].fileName>>]
    \o [i \in 1..Len(d.resources) |-> <<"OEBPS/", d.resources[i].fileName>>]
    \o << <<"OEBPS/", "styles/default.css">> >>

IsPrefix(s, t) == Len(s) <= Len(t) /\ \A i \in 1..Len(s) : s[i] = t[i]

\* C1: whenever Build returns an archive, its first entry is named
\* "mimetype", is stored without compression, and its content is exactly the
\* 20 bytes "application/epub+zip".
C1_MimetypeFirst ==
    Succeeded =>
        /\ Len(ret.bytes.entries) >= 1
        /\ ret.bytes.entries[1].name = <<"", "mimetype">>
        /\ ret.bytes.entries[1].method = "Store"
        /\ ret.bytes.entries[1].data = [text |-> "application/epub+zip"]
        /\ Len(ret.bytes.entries[1].data.text) = 20

C1_Witness == Succeeded /\ Len(input.chapters) = 2 /\ Len(ret.bytes.entries) >= 7

\* C2: at every point of a build the entries written so far are a prefix of
\* mimetype, container.xml, content.opf, nav.xhtml, the content documents in
\* chapter list order, the resources in list order, default.css; and the
\* archive a successful Build returns is that whole sequence.
C2_EntryOrder ==
    /\ pc # "idle" => IsPrefix(Names(zw.entries), ExpectedNames(doc))
    /\ Succeeded => Names(ret.bytes.entries) = ExpectedNames(doc)

C2_Witness ==
    /\ Succeeded
    /\ Len(input.chapters) = 2
    /\ Len(input.resources) = 1
    /\ Len(ret.bytes.entries) = 9

\* C3: Build on a Document with an empty title or no chapters returns an
\* error and nil bytes, appends no attribution chapter and writes no entry.
C3_InvalidRejected ==
    (ret.returned /\ (input.meta.title = <<>> \/ Len(input.chapters) = 0)) =>
        /\ ret.err # NoError
        /\ ret.bytes.isNil
        /\ doc.chapters = input.chapters
        /\ zw.entries = <<>>

C3_Witness ==
    /\ ret.returned
    /\ input.meta.title # <<>>
    /\ Len(input.chapters) = 0
    /\ ret.err # NoError

\* C4: the error Build returns for an invalid Document identifies as
\* ErrMissingTitle when the title is empty and as ErrNoChapters when the
\* chapter list is empty.
C4_StructuredError ==
    /\ (ret.returned /\ input.meta.title = <<>>) => ErrorsIs(ret.err, ErrMissingTitle)
    /\ (ret.returned /\ Len(input.chapters) = 0) => ErrorsIs(ret.err, ErrNoChapters)

\* The message of the phase that writes the k-th entry of a build of d
PhaseMessageOfEntry(d, k) ==
    CASE k = 1 -> "writing mimetype"
      [] k = 2 -> "writing container.xml"
      [] k = 3 -> "writing content.opf"
      [] k = 4 -> "writing nav.xhtml"
      [] k > 4 /\ k <= 4 + Len(d.chapters) -> "writing content documents"
      [] k > 4 + Len(d.chapters) /\ k <= 4 + Len(d.chapters) + Len(d.resources)
            -> "writing resources"
      [] OTHER -> "writing stylesheet"

\* C5: Build returns either bytes or an error, never both and never neither;
\* returned bytes hold every entry of the archive; and when a serialization
\* step fails the error names the phase that failed.
C5_AllOrNothing ==
    /\ ~ret.returned => ret.bytes.isNil
    /\ ret.returned =>
        /\ ret.bytes.isNil <=> ret.err # NoError
        /\ ~ret.bytes.isNil => Names(ret.bytes.entries) = ExpectedNames(doc)
        /\ (ret.err # NoError /\ input.meta.title # <<>> /\ Len(input.chapters) > 0) =>
              ret.err = << "building EPUB",
                           PhaseMessageOfEntry(doc, Len(zw.entries) + 1),
                           ErrWriter >>

C5_Witness ==
    /\ ret.returned
    /\ ret.err # NoError
    /\ Len(zw.entries) = 6
    /\ Len(doc.resources) = 1

\* The package document of the archive Build returned
ReturnedPackage == ret.bytes.entries[3].data

\* C6 as stated: the manifest of a successful build of a Document with N
\* chapters and M resources has exactly N+M+2 items.
C6_ManifestCountOriginal ==
    Succeeded =>
        Len(ReturnedPackage.manifest) = Len(input.chapters) + Len(input.resources) + 2

\* C6 amended: the manifest has exactly N+M+3 items: the navigation document,
\* the stylesheet, the N chapters, the appended attribution chapter and the
\* M resources.
C6_ManifestCount ==
    Succeeded =>
        LET m == ReturnedPackage.manifest
            N == Len(input.chapters)
            M == Len(input.resources)
        IN /\ ret.bytes.entries[3].name = <<"OEBPS/", "content.opf">>
           /\ Len(m) = N + M + 3
           /\ m[1].id = "nav" /\ m[1].properties = "nav"
           /\ m[2].href = "styles/default.css"
           /\ \A i \in 1..N : m[2 + i].id = input.chapters[i].id
           /\ m[2 + N + 1].id = "colophon"
           /\ \A i \in 1..M : m[2 + N + 1 + i].id = input.resources[i].id

C6_Witness == Succeeded /\ Len(input.chapters) = 2 /\ Len(input.resources) = 1

\* The position of the itemref of chapter id in a spine
SpinePosition(spine, id) == CHOOSE k \in 1..Len(spine) : spine[k] = id

\* C7: the spine follows Chapter.Order, not slice position: of two chapters
\* handed to Build, the one with the smaller Order has the earlier itemref.
C7_SpineByOrder ==
    (Succeeded /\ \A i, j \in 1..Len(doc.chapters) :
                     i # j => doc.chapters[i].id # doc.chapters[j].id) =>
        LET spine == ReturnedPackage.spine IN
        \A i, j \in 1..Len(input.chapters) :
            input.chapters[i].order < input.chapters[j].order =>
                SpinePosition(spine, input.chapters[i].id)
                    < SpinePosition(spine, input.chapters[j].id)

\* C8: a successful Build appends exactly one attribution chapter, last, so
\* the spine has N+1 itemrefs; its Order is greater than every input
\* chapter's Order and its id and fileName differ from every input chapter's.
C8_NextAvailable ==
    Succeeded =>
        LET N == Len(input.chapters)
            last == doc.chapters[Len(doc.chapters)]
        IN /\ Len(doc.chapters) = N + 1
           /\ SubSeq(doc.chapters, 1, N) = input.chapters
           /\ last.title = <<"About This EPUB">>
           /\ Len(ReturnedPackage.spine) = N + 1
           /\ \A i \in 1..N :
                /\ last.order > input.chapters[i].order
                /\ last.id # input.chapters[i].id
                /\ last.fileName # input.chapters[i].fileName

----------------------------------------------------------------------------
(* Properties of BuildFromHeadings *)

RECURSIVE StrictlyDeeper(_)
StrictlyDeeper(entries) ==
    \A i \in 1..Len(entries) :
        /\ \A j \in 1..Len(entries[i].children) :
              entries[i].children[j].level > entries[i].level
        /\ StrictlyDeeper(entries[i].children)

RECURSIVE Depth(_)
Depth(entries) ==
    IF entries = <<>> THEN 0
    ELSE 1 + Depth(Concat([i \in 1..Len(entries) |-> entries[i].children]))

\* C9: in the tree BuildFromHeadings builds, at every depth every child has
\* a level strictly greater than its parent's.
C9_ChildrenDeeper == StrictlyDeeper(TocResult)

C9_Witness ==
    /\ TocDone
    /\ Depth(TocResult) = 3
    /\ Len(TocResult) = 2

\* The (title, href, level) triples of a list of entries
Triples(entries) ==
    [i \in 1..Len(entries) |-> Heading(entries[i].title, entries[i].href, entries[i].level)]

\* C10: flattening the built tree depth-first gives the input headings back:
\* the same triples in the same order, none lost, duplicated or added.
C10_RoundTrip == TocDone => Triples(FlatEntries(TocResult)) = headings

C10_Witness ==
    /\ TocDone
    /\ Len(headings) = 4
    /\ Len(TocResult) = 1
    /\ Len(TocResult[1].children) = 2
    /\ Len(TocResult[1].children[2].children) = 1

----------------------------------------------------------------------------
(* Properties of Metadata *)

\* The last call made on the Metadata
LastCall == IF metaLog = <<>> THEN "none" ELSE metaLog[Len(metaLog)]

\* A field holds its zero value: "", a nil or empty slice, the zero time
IsUnset(f, v) == IF f = "date" THEN v = 0 ELSE v = <<>>

\* C11: after m.Merge(override) every field of m holds the override's value
\* when that value is non-empty (a non-empty string or list, a non-zero time)
\* and the value m had before otherwise, each field decided on its own; an
\* override with nothing set leaves m as it was.  MergeMetadata(source, cli)
\* merges the same way before it fills the defaults: every field of its
\* result that the merge leaves set holds the merged value, and so does every
\* field EnsureDefaults does not fill.
C11_MergeFieldWise ==
    /\ LastCall = "Merge" =>
          /\ \A f \in MetaFields :
                meta[f] = IF IsUnset(f, metaOverride[f]) THEN metaPrev[f] ELSE metaOverride[f]
          /\ ((\A f \in MetaFields : IsUnset(f, metaOverride[f])) => meta = metaPrev)
    /\ (LastCall = "MergeMetadata" /\ metaPrev # NilMetadata /\ metaOverride # NilMetadata) =>
          \A f \in MetaFields :
             LET v == IF IsUnset(f, metaOverride[f]) THEN metaPrev[f] ELSE metaOverride[f] IN
             (~IsUnset(f, v) \/ f \notin {"language", "identifier", "date"}) => meta[f] = v

\* Merge ran with an override that sets one field only, on a receiver that
\* had every field set: that field changed and the title did not
C11_Witness ==
    /\ LastCall = "Merge"
    /\ metaOverride.title = <<>> /\ metaOverride.rights # <<>>
    /\ \A f \in MetaFields : ~IsUnset(f, metaPrev[f])
    /\ meta.rights # metaPrev.rights
    /\ meta.title = metaPrev.title

\* C13: after m.EnsureDefaults() the language and the identifier are
\* non-empty and the date is non-zero; each of the three that was set before
\* the call keeps its value; no other field changes; and a second call right
\* after the first changes nothing.
C13_EnsureDefaults ==
    LastCall = "EnsureDefaults" =>
        /\ meta.language # <<>> /\ meta.identifier # <<>> /\ meta.date # 0
        /\ \A f \in {"language", "identifier", "date"} :
              ~IsUnset(f, metaPrev[f]) => meta[f] = metaPrev[f]
        /\ \A f \in MetaFields \ {"language", "identifier", "date"} :
              meta[f] = metaPrev[f]
        /\ (Len(metaLog) >= 2 /\ metaLog[Len(metaLog) - 1] = "EnsureDefaults"
              => meta = metaPrev)

\* EnsureDefaults ran twice in a row on a Metadata that had no language and
\* no date but an identifier
C13_Witness ==
    /\ metaLog = <<"EnsureDefaults", "EnsureDefaults">>
    /\ meta.language = <<"en">> /\ meta.date = Now
    /\ meta.identifier = <<"urn:isbn:1">>
    /\ meta = metaPrev

----------------------------------------------------------------------------
(* Properties of the package document *)

\* The character an entity reference (the token after "&") stands for
EntityChar(e) ==
    CASE e = "amp;" -> "&"
      [] e = "#39;" -> "'"
      [] e = "lt;"  -> "<"
      [] e = "gt;"  -> ">"
      [] e = "#34;" -> "\""

Entities == {"amp;", "#39;", "lt;", "gt;", "#34;"}

\* What an XML reader makes of element text: each entity reference replaced
\* by its character, once
RECURSIVE UnescapeString(_)
UnescapeString(s) ==
    IF s = <<>> THEN <<>>
    ELSE IF Len(s) >= 2 /\ s[1] = "&" /\ s[2] \in Entities
           THEN <<EntityChar(s[2])>> \o UnescapeString(SubSeq(s, 3, Len(s)))
           ELSE <<s[1]>> \o UnescapeString(Tail(s))

\* Element text with no raw "<" and no "&" other than one starting an
\* entity reference
WellFormedText(s) ==
    \A i \in 1..Len(s) :
        /\ s[i] # "<"
        /\ (s[i] = "&" => i < Len(s) /\ s[i + 1] \in Entities)

\* C14: in the package document of a successful build every free-text
\* metadata value (title, each author, description, publisher, rights,
\* identifier, language) is escaped exactly once: unescaping the rendered
\* text gives the value the Document holds, and the rendered text has no raw
\* "<" and no "&" that does not start an entity reference.
C14_EscapedOnce ==
    Succeeded =>
        LET p == ReturnedPackage IN
        /\ \A f \in {"title", "description", "publisher", "rights", "identifier", "language"} :
              /\ UnescapeString(p[f]) = doc.meta[f]
              /\ WellFormedText(p[f])
        /\ Len(p.authors) = Len(doc.meta.authors)
        /\ \A i \in 1..Len(p.authors) :
              /\ UnescapeString(p.authors[i]) = doc.meta.authors[i]
              /\ WellFormedText(p.authors[i])

\* A build succeeded on a Document whose title holds "&" and "<", whose
\* rights text is "&amp;" and whose first author holds "&"
C14_Witness ==
    /\ Succeeded
    /\ input.meta.title = <<"A", "&", "<", "B">>
    /\ input.meta.rights = <<"&", "amp;">>
    /\ Len(input.meta.authors) = 2
    /\ ReturnedPackage.rights = <<"&", "amp;", "amp;">>

----------------------------------------------------------------------------
(* Properties of the navigation document *)

\* The landmarks of the given epub:type
LandmarksOfType(n, type) == {i \in 1..Len(n.landmarks) : n.landmarks[i].type = type}

\* C15: the landmarks of a generated navigation document always hold the
\* entry for the table of contents, pointing at nav.xhtml, and hold a
\* "Start of Content" (bodymatter) entry exactly when the Document has at
\* least one chapter; there is at most one, and its href is the fileName of
\* the Document's first chapter.
C15_Landmarks ==
    nav.generated =>
        /\ \E i \in LandmarksOfType(nav, "toc") : nav.landmarks[i].href = "nav.xhtml"
        /\ (LandmarksOfType(nav, "bodymatter") # {} <=> Len(doc.chapters) >= 1)
        /\ Cardinality(LandmarksOfType(nav, "bodymatter")) <= 1
        /\ \A i \in LandmarksOfType(nav, "bodymatter") :
              nav.landmarks[i].href = doc.chapters[1].fileName

\* The navigation document was generated for a Document of two chapters
\* with different file names
C15_Witness ==
    /\ nav.generated
    /\ Len(doc.chapters) = 2
    /\ doc.chapters[1].fileName # doc.chapters[2].fileName
    /\ LandmarksOfType(nav, "bodymatter") # {}

\* The navigation document was generated for a Document without chapters
C15_WitnessNoChapters ==
    nav.generated /\ doc.chapters = <<>> /\ Len(nav.landmarks) = 1

----------------------------------------------------------------------------
(* Properties of toepub convert *)

\* Convert has assembled the book: Build returned the archive
ConvBuilt == cpc \in {"write", "writeFile", "rename"} \/ (cpc = "exited" /\ convResult.success)

\* C12: metadata precedence is CLI flag > source document > default: the
\* book's title, authors, language and cover image are the flag's value when
\* the flag was given and the source's otherwise; with no --language flag the
\* book's language is the one found in the first source file, and "en" only
\* when that file has none.
C12_Precedence ==
    ConvBuilt =>
        LET src == SourceMetadata(files[1])
            m == cdoc.meta
        IN /\ m.title = IF flags.title # <<>> THEN flags.title
                         ELSE IF src.title # <<>> THEN src.title
                         ELSE <<files[1].stem>>
           /\ m.authors = IF flags.author # <<>> THEN <<flags.author>> ELSE src.authors
           /\ m.language = IF flags.language # <<>> THEN flags.language
                            ELSE IF src.language # <<>> THEN src.language
                            ELSE <<"en">>
           /\ m.coverImage = IF flags.cover # <<>> THEN flags.cover ELSE src.coverImage

\* C16: a run that fails because the input format is unsupported or cannot
\* be detected (Convert returned an error wrapping ErrUnsupportedFmt) exits
\* with code 65, which is also the code of the JSON error, and not with 1.
C16_FormatExitCode ==
    (cpc = "exited" /\ ~convResult.success /\ IsPrefix(ErrUnsupportedFmt, convResult.err)) =>
        /\ convResult.exitCode = ExitFormatError
        /\ convResult.jsonCode = ExitFormatError

\* The files the arguments name, directories expanded, in argument order
RECURSIVE ArgumentFiles(_)
ArgumentFiles(inputs) ==
    IF inputs = <<>> THEN <<>>
    ELSE (IF Stat(Head(inputs)) = "dir" THEN expandDirectory(Head(inputs)) ELSE <<Head(inputs)>>)
         \o ArgumentFiles(Tail(inputs))

\* How often x occurs in the sequence fs
Occurrences(fs, x) == Cardinality({i \in 1..Len(fs) : fs[i] = x})

\* C17: the files of a conversion are processed in the alphabetical order of
\* their paths whatever the order of the arguments: files is the arguments'
\* files sorted, and the k-th chapter merged comes from the k-th file; after
\* each merge every chapter's Order is its position 0..n-1 and the chapters'
\* ids and fileNames are pairwise distinct.
C17_MergeOrder ==
    cpc \in {"parse", "build"} =>
        /\ \A i, j \in 1..Len(files) : i < j => Rank(files[i]) <= Rank(files[j])
        /\ \A i \in 1..Len(PathOrder) :
              Occurrences(files, PathOrder[i]) = Occurrences(ArgumentFiles(args), PathOrder[i])
        /\ Len(cdoc.chapters) = fi - 1
        /\ \A i \in 1..Len(cdoc.chapters) :
              /\ cdoc.chapters[i].content = files[i].name
              /\ cdoc.chapters[i].order = i - 1
        /\ \A i, j \in 1..Len(cdoc.chapters) :
              i # j => /\ cdoc.chapters[i].id # cdoc.chapters[j].id
                       /\ cdoc.chapters[i].fileName # cdoc.chapters[j].fileName

\* Two files given in reverse alphabetical order were both merged
C17_Witness ==
    /\ cpc = "build"
    /\ args = <<PathNamed("c.md"), PathNamed("a/b/doc.md")>>
    /\ files = <<PathNamed("a/b/doc.md"), PathNamed("c.md")>>
    /\ Len(cdoc.chapters) = 2
    /\ cdoc.chapters[2].id = "chapter-002"

\* C18: a run on one input file without --output that succeeds writes the
\* EPUB into the working directory, under the input's base name with the
\* extension replaced by .epub, also when the input path has directories
\* ("a/b/doc.md" gives "./doc.epub").
C18_DefaultOutputPath ==
    (/\ cpc = "exited" /\ convResult.success
     /\ flags.output = EmptyPath
     /\ Len(args) = 1 /\ Stat(args[1]) = "file") =>
        convResult.output = OutPath("", args[1].stem, "")

----------------------------------------------------------------------------
(* What Build changes in the Document it is given *)

\* C19 as stated: Build changes the Document only by appending the
\* attribution chapter: the chapters it had, its resources, its table of
\* contents and its metadata fields are the same after Build as before, on
\* the success and on the failure path.
C19_OnlyColophonOriginal ==
    ret.returned =>
        /\ doc.meta = input.meta
        /\ doc.resources = input.resources
        /\ doc.toc = input.toc
        /\ doc.chapters \in {input.chapters, Append(input.chapters, Colophon(input))}

\* C19 amended: Build changes the Document only by filling the metadata
\* defaults and appending the attribution chapter.  After Build returned, on
\* the success and on the failure path: the resources and the table of
\* contents are as before; every metadata field other than language, identifier and date
\* is as before, and each of these three is as before when it was set; the
\* chapters it had are unchanged and in place, followed by the attribution
\* chapter exactly when the Document passed validation.
C19_OnlyDefaultsAndColophon ==
    ret.returned =>
        /\ doc.resources = input.resources
        /\ doc.toc = input.toc
        /\ \A f \in MetaFields \ {"language", "identifier", "date"} :
              doc.meta[f] = input.meta[f]
        /\ \A f \in {"language", "identifier", "date"} :
              /\ ~IsUnset(f, input.meta[f]) => doc.meta[f] = input.meta[f]
              /\ ~IsUnset(f, doc.meta[f])
        /\ IsPrefix(input.chapters, doc.chapters)
        /\ IF Valid(input)
             THEN /\ Len(doc.chapters) = Len(input.chapters) + 1
                  /\ doc.chapters[Len(doc.chapters)].id = "colophon"
             ELSE doc.chapters = input.chapters

\* Build failed while writing, on a Document that had no language: the
\* attribution chapter was appended and the language filled in all the same
C19_Witness ==
    /\ ret.returned /\ ret.bytes.isNil
    /\ Len(input.chapters) = 2 /\ Len(doc.chapters) = 3
    /\ input.meta.language = <<>> /\ doc.meta.language = <<"en">>
    /\ input.meta.identifier # <<>>

----------------------------------------------------------------------------
(* The parent BuildFromHeadings gives each heading *)

\* The number of entries of a subtree
RECURSIVE SubtreeSize(_)
SubtreeSize(entry) ==
    1 + Len(Concat([i \in 1..Len(entry.children) |-> flattenEntry(entry.children[i])]))

\* For the entries of a forest in depth-first order, the depth-first index
\* of each one's parent; parent is the index of the forest's parent (0 for
\* the top level) and first the index of the forest's first entry
RECURSIVE ParentIndexes(_, _, _)
ParentIndexes(entries, parent, first) ==
    IF entries = <<>> THEN <<>>
    ELSE <<parent>>
         \o ParentIndexes(Head(entries).children, first, first + 1)
         \o ParentIndexes(Tail(entries), parent, first + SubtreeSize(Head(entries)))

\* C20: BuildFromHeadings puts each heading under its nearest ancestor: after
\* each loop iteration the tree holds exactly the headings processed so far,
\* and the parent of heading i is the closest earlier heading of a strictly
\* smaller level, heading i being top-level exactly when there is none; this
\* also when levels are skipped, with no placeholder entry and no error.
C20_NearestAncestor ==
    hi >= 1 =>
        LET n == hi - 1
            parents == ParentIndexes(TocResult, 0, 1)
        IN /\ Len(parents) = n
           /\ \A i \in 1..n : parents[i] = NearestShallower(headings, i)

\* BuildFromHeadings returned for headings of levels 1, 3, 2, 3: the h3
\* after the h1 is its child, and the last h3 is a child of the h2
C20_Witness ==
    /\ TocDone
    /\ [i \in 1..Len(headings) |-> headings[i].level] = <<1, 3, 2, 3>>
    /\ ParentIndexes(TocResult, 0, 1) = <<0, 1, 1, 3>>

----------------------------------------------------------------------------
(* Errors of the archive writer *)

\* C21: every writer-level error raised while the archive is serialized,
\* the error of closing the archive writer (which emits the central
\* directory) included, makes Build return an error: Build never reports
\* success for an archive whose writer failed.
C21_NoWriterErrorDropped ==
    (ret.returned /\ zw.closed = "failed") => ret.err # NoError

----------------------------------------------------------------------------
(* The table of contents rendered into the navigation document *)

\* The p-th piece of a rendering, or a piece that is no tag when there is none
PieceAt(r, p) == IF p \in 1..Len(r) THEN r[p] ELSE [tag |-> "none"]

\* What an XHTML reader makes of the list items starting at piece p: the
\* items read, the first piece after them, and whether every item read was
\* <li>, one anchor, an optional nested <ol>...</ol>, </li>
RECURSIVE ReadItems(_, _)
ReadItems(r, p) ==
    IF PieceAt(r, p) # LiOpen THEN [items |-> <<>>, next |-> p, ok |-> TRUE]
    ELSE LET a == PieceAt(r, p + 1)
             nested == PieceAt(r, p + 2) = OlOpen
             sub == IF nested THEN ReadItems(r, p + 3)
                              ELSE [items |-> <<>>, next |-> p + 2, ok |-> TRUE]
             liEnd == IF nested THEN sub.next + 1 ELSE p + 2
             wellFormed == /\ a.tag = "a"
                           /\ sub.ok
                           /\ (nested => PieceAt(r, sub.next) = OlClose)
                           /\ PieceAt(r, liEnd) = LiClose
         IN IF ~wellFormed THEN [items |-> <<>>, next |-> p, ok |-> FALSE]
            ELSE LET rest == ReadItems(r, liEnd + 1) IN
                 [items |-> << [href |-> a.href, text |-> a.text, nested |-> nested,
                                children |-> sub.items] >> \o rest.items,
                  next |-> rest.next,
                  ok |-> rest.ok]

\* The list items a table of contents is to be rendered as
RECURSIVE ExpectedItems(_)
ExpectedItems(entries) ==
    [i \in 1..Len(entries) |->
        [href |-> entries[i].href,
         text |-> IF entries[i].title = "&" THEN <<"&", "amp;">> ELSE <<entries[i].title>>,
         nested |-> entries[i].children # <<>>,
         children |-> ExpectedItems(entries[i].children)]]

\* C22: the list rendered into the navigation document is the TOC tree: one
\* outer <ol>...</ol> holding, in depth-first order, one <li> with one anchor
\* per entry, an entry's <li> holding a nested <ol> exactly when the entry
\* has children, every <ol> and <li> closed in nested order; an empty TOC is
\* rendered as the single empty list <ol></ol>; and the landmarks block is
\* emitted either way.
C22_TOCListIsTree ==
    nav.generated =>
        LET r == nav.tocList
            read == ReadItems(r, 2)
        IN /\ PieceAt(r, 1) = OlOpen
           /\ read.ok
           /\ read.next = Len(r)
           /\ PieceAt(r, Len(r)) = OlClose
           /\ read.items = ExpectedItems(doc.toc)
           /\ (doc.toc = <<>> => r = <<OlOpen, OlClose>>)
           /\ Len(nav.landmarks) >= 1

\* The navigation document was generated for a table of contents of four
\* entries, three levels deep, the second top-level entry without children
C22_Witness ==
    /\ nav.generated
    /\ Len(doc.toc) = 2
    /\ Len(doc.toc[1].children) = 1
    /\ Len(doc.toc[1].children[1].children) = 1
    /\ doc.toc[2].children = <<>>
    /\ Len(nav.tocList) = 18

\* The navigation document was generated for an empty table of contents
C22_WitnessEmpty ==
    nav.generated /\ doc.toc = <<>> /\ Len(nav.tocList) = 2 /\ Len(nav.landmarks) = 2

----------------------------------------------------------------------------
(* TOC hrefs after a merge of several files *)

\* The file part of an href: what precedes "#"
HrefFile(href) ==
    IF href = "content/chapter-001.xhtml#intro" THEN "content/chapter-001.xhtml" ELSE href

\* C23: after the converter merged the parsed files, every TOC entry's href
\* resolves to the chapter that holds its heading: the file part of the href
\* of the entry that came from the i-th file is the fileName that file's
\* chapter has after renumbering.  (Each file brings one chapter and one
\* top-level entry, so the i-th entry and the i-th chapter belong together.)
C23_HrefsFollowRenumbering ==
    cpc \in {"parse", "build"} =>
        /\ Len(cdoc.toc) = Len(cdoc.chapters)
        /\ \A i \in 1..Len(cdoc.toc) :
              HrefFile(cdoc.toc[i].href) = cdoc.chapters[i].fileName

\* C24: every resource Convert hands to Build has non-empty data: an image
\* is either loaded with its bytes or absent from doc.Resources.
C24_ResourcesHaveData ==
    cpc = "build" =>
        \A i \in 1..Len(cdoc.resources) : cdoc.resources[i].data # ""

----------------------------------------------------------------------------
(* Uniqueness and agreement of manifest and archive *)

\* No two elements of the sequence are equal
Distinct(seq) == \A i, j \in 1..Len(seq) : i # j => seq[i] # seq[j]

\* The chapters the caller put into the Document (the pool has no "colophon")
CallerChapters == SelectSeq(doc.chapters, LAMBDA c : c.id # "colophon")

ChapterIds(chapters) == [i \in 1..Len(chapters) |-> chapters[i].id]
ChapterFileNames(chapters) == [i \in 1..Len(chapters) |-> chapters[i].fileName]

\* C26: starting from a Document whose chapter ids and fileNames are
\* pairwise distinct, after any number of Build calls they are still
\* distinct, the package document has no two manifest items with one id
\* and the archive has no two entries with one name.
C26_UniquenessPreserved ==
    (Distinct(ChapterIds(CallerChapters)) /\ Distinct(ChapterFileNames(CallerChapters))) =>
        /\ Distinct(ChapterIds(doc.chapters))
        /\ Distinct(ChapterFileNames(doc.chapters))
        /\ Succeeded =>
              /\ Distinct([i \in 1..Len(ReturnedPackage.manifest) |->
                              ReturnedPackage.manifest[i].id])
              /\ Distinct(Names(ret.bytes.entries))

\* The names "OEBPS/" + href of the items the package document declares
DeclaredNames(package) ==
    { <<"OEBPS/", package.manifest[i].href>> : i \in 1..Len(package.manifest) }

\* The names of the archive's entries under OEBPS/ other than the package
\* document itself
PublicationNames(entries) ==
    { n \in { entries[i].name : i \in 1..Len(entries) } :
         n[1] = "OEBPS/" /\ n # <<"OEBPS/", "content.opf">> }

\* C27: in every archive Build produces, the manifest hrefs prefixed with
\* "OEBPS/" are exactly the names of the entries under OEBPS/ other than
\* OEBPS/content.opf: every chapter and resource written is declared and
\* every declared item is present.
C27_ManifestMatchesArchive ==
    Succeeded =>
        DeclaredNames(ReturnedPackage) = PublicationNames(ret.bytes.entries)

C27_Witness ==
    /\ Succeeded
    /\ Len(input.resources) = 1
    /\ Cardinality(PublicationNames(ret.bytes.entries)) >= 5

----------------------------------------------------------------------------
(* Stylesheet links *)

\* The directory part of a document's name below OEBPS/, with its slash
DirOf(fileName) ==
    IF fileName \in {"content/chapter-001.xhtml", "content/chapter-002.xhtml",
                     "content/chapter-003.xhtml", "content/colophon.xhtml"}
      THEN "content/"
      ELSE ""

\* A relative reference resolved against the archive name of the document
\* holding it: the document's directory followed by the reference (the
\* references of the templates have no ".." segment)
ResolveReference(docName, href) == <<docName[1], DirOf(docName[2]), href>>

\* The entries of the archive that are generated documents with a
\* stylesheet link
LinkingEntries(entries) ==
    { i \in 1..Len(entries) : "stylesheet" \in DOMAIN entries[i].data }

\* C28: every stylesheet link of a generated document resolves, relative
\* to the document's place in the archive, to OEBPS/styles/default.css,
\* for the navigation document and for every content document.
C28_StylesheetLinkResolves ==
    Succeeded =>
        \A i \in LinkingEntries(ret.bytes.entries) :
            ResolveReference(ret.bytes.entries[i].name,
                             ret.bytes.entries[i].data.stylesheet)
                = <<StylesheetEntry.name[1], "", StylesheetEntry.name[2]>>

----------------------------------------------------------------------------
(* Stack pointers of BuildFromHeadings *)

\* The addresses of the entries a reader reaches from a slice header
RECURSIVE LiveCells(_, _)
LiveCells(h, hdr) ==
    UNION { {[arr |-> hdr.arr, idx |-> i]} \cup LiveCells(h, h[hdr.arr][i].children) :
            i \in 1..hdr.len }

\* The list the next iteration appends to, after its pops: toc.Entries or
\* the Children of the entry on top of the stack
NextAppendList ==
    LET st == PopStack(heap, stack, headings[hi].level) IN
    IF st = <<>> THEN tocEntries ELSE Deref(heap, Top(st)).children

\* C30: in BuildFromHeadings every pointer on the stack refers to the live
\* entry of the result tree; when an entry is about to be appended to a
\* list, no entry still on the stack is an element of that list; and every
\* entry appended so far is present in the tree the caller reads.
C30_StackPointersLive ==
    hi >= 1 =>
        /\ \A k \in 1..Len(stack) : stack[k] \in LiveCells(heap, tocEntries)
        /\ hi <= Len(headings) =>
              LET st == PopStack(heap, stack, headings[hi].level) IN
              \A k \in 1..Len(st) :
                  NextAppendList.len > 0 => st[k].arr # NextAppendList.arr
        /\ Len(FlatEntries(TocResult)) = hi - 1

\* Three entries are nested, and a Children list has been reallocated while
\* its parent was on the stack
C30_Witness ==
    /\ TocDone
    /\ Len(stack) >= 2
    /\ \E k \in 1..Len(stack) :
          LET c == Deref(heap, stack[k]).children IN c.len >= 2 /\ c.arr > 1
    /\ Len(heap) >= 4

----------------------------------------------------------------------------
(* The output file *)

\* writeOutput returned an error: the run ended with ErrOutputNotWrite
WriteOutputFailed ==
    cpc = "exited" /\ ~convResult.success /\ IsPrefix(ErrOutputNotWrite, convResult.err)

\* C29: the output path holds its previous content or the complete EPUB at
\* every point, never a partial write; and when writeOutput returns an
\* error, whether the temporary write or the rename failed, the target is
\* unchanged and no "<path>.tmp" file remains.
C29_AtomicNoResidue ==
    /\ disk.target \in {disk.before, "epub"}
    /\ WriteOutputFailed => disk.target = disk.before /\ disk.tmp = "absent"

----------------------------------------------------------------------------
(* Isolation of Build calls *)

\* The archive writeEPUB serializes from one Document
ArchiveOf(d) ==
    << MimetypeEntry, ContainerEntry, PackageEntry(d), NavEntry(d) >>
    \o [i \in 1..Len(d.chapters) |-> ContentEntry(d, i)]
    \o [i \in 1..Len(d.resources) |-> ResourceEntry(d, i)]
    \o << StylesheetEntry >>

\* The two calls are on one Builder
SameBuilder == calls[1].builder = calls[2].builder

\* C25: the archive a Build(d) call returns is serialized from d only, when
\* the calls on one Builder follow one another and when concurrent calls
\* are on distinct Builders.
C25_BuildIsolation ==
    (synchronized \/ ~SameBuilder) =>
        \A c \in Calls :
            calls[c].ret = "bytes" => calls[c].entries = ArchiveOf(calls[c].doc)

\* One Builder reused: its second call has returned an archive after its
\* first call returned one
C25_Witness ==
    /\ synchronized
    /\ SameBuilder
    /\ \A c \in Calls : calls[c].ret = "bytes"

\* The other half of C25: two calls interleaved on one Builder without
\* synchronization, one of them returning an archive that is not the
\* serialization of its own Document
C25_SharedBuilderMixes ==
    /\ ~synchronized
    /\ SameBuilder
    /\ \E c \in Calls :
          calls[c].ret = "bytes" /\ calls[c].entries # ArchiveOf(calls[c].doc)

\* Concurrent calls on distinct Builders, both returning archives
C25_DistinctBuildersBothReturn ==
    /\ ~synchronized
    /\ ~SameBuilder
    /\ \A c \in Calls : calls[c].ret = "bytes"

====
